---- MODULE Spec2Model ----
(***************************************************************************)
(* Docking layout engine of bevy_editor_ui (crates/bevy_editor_ui/src/     *)
(* docking): the DockingLayout tree and its operations, the two drag       *)
(* controllers (panel drag-to-dock, divider resize) as per-frame systems,  *)
(* and layout persistence.                                                 *)
(*                                                                         *)
(* Numbers.  f32 ratios and normalized cursor positions are fixed-point    *)
(* hundredths (0.7 is 70, 0.3 is 30); NaN is the one f32 value that has no *)
(* place on that line and is kept as a separate value.  Pixel positions    *)
(* are integer pairs.  usize indices are 0-based as in the source;         *)
(* sequences are 1-based, so panels[active + 1] is the active panel.       *)
(***************************************************************************)
EXTENDS Integers, Sequences, FiniteSets, TLC

VARIABLES
    layout,     \* Res<DockingLayout>: [root, floating]
    COUNTER,    \* static COUNTER: AtomicU64 of DockId::new
    call,       \* the last operation performed: [op, args, ret]
    drag,       \* Res<DockDragState>
    divider,    \* Res<DividerDragState>
    input,      \* the frame's input facts (ButtonInput, cursor, interactions)
    ran,        \* the systems that have already run in the current frame
    file,       \* the content of editor_layout.json
    loaded      \* Local<bool> of auto_load_layout

vars == <<layout, COUNTER, call, drag, divider, input, ran, file, loaded>>

----------------------------------------------------------------------------
(* Bounds of the model *)

\* DockId::new is not called once COUNTER has reached this value.
MaxId == 8
\* No operation is applied that would leave more panel entries than this
\* in the layout (tree and floating windows together).
MaxPanels == 4
\* Across sessions that load a saved layout, no container is split in a tree
\* that has this many nodes.
MaxNodes == 9

----------------------------------------------------------------------------
(* Option<T> *)

None == [some |-> FALSE]
Some(x) == [some |-> TRUE, val |-> x]
Option(S) == {None} \cup {Some(x) : x \in S}

----------------------------------------------------------------------------
(* f32 *)

\* The f32 NaN: unordered with every value, passed through by clamp.
NaN == -1000000

\* f32::clamp(self, min, max) with min <= max: NaN stays NaN.
clamp(x, lo, hi) ==
    IF x = NaN THEN NaN
    ELSE IF x < lo THEN lo
    ELSE IF x > hi THEN hi
    ELSE x

----------------------------------------------------------------------------
(* Data model: DockNode, FloatingWindow, DockingLayout *)

PanelIds == {"Viewport", "Hierarchy", "Inspector", "Assets"}
Directions == {"Horizontal", "Vertical"}
Zones == {"Left", "Right", "Top", "Bottom", "Center"}

PanelNode(panels, active, id) ==
    [kind |-> "Panel", panels |-> panels, active |-> active, id |-> id]

SplitNode(direction, ratio, first, second, id) ==
    [kind |-> "Split", direction |-> direction, ratio |-> ratio,
     first |-> first, second |-> second, id |-> id]

FloatingWindow(panels, active, position, size, id) ==
    [panels |-> panels, active |-> active, position |-> position,
     size |-> size, id |-> id]

\* DockNode::default_layout with COUNTER = c on entry: the ids are minted in
\* the order the struct expression evaluates its fields (c .. c+4).
default_layout(c) ==
    SplitNode("Horizontal", 70,
              PanelNode(<<"Viewport">>, 0, c),
              SplitNode("Vertical", 50,
                        PanelNode(<<"Hierarchy">>, 0, c + 1),
                        PanelNode(<<"Inspector">>, 0, c + 2),
                        c + 3),
              c + 4)

\* impl Default for DockingLayout
DefaultDockingLayout(c) == [root |-> Some(default_layout(c)), floating |-> <<>>]

\* Vec::iter().position(|p| p == x): the first 0-based index, as an Option.
position(s, x) ==
    IF \E i \in 1..Len(s) : s[i] = x
    THEN Some((CHOOSE i \in 1..Len(s) :
                  s[i] = x /\ \A j \in 1..(i - 1) : s[j] # x) - 1)
    ELSE None

\* Vec::remove(pos), pos 0-based: the vector without that element.
vec_remove(s, pos) == SubSeq(s, 1, pos) \o SubSeq(s, pos + 2, Len(s))

\* DockNode::all_panels: pre-order, Panel nodes contribute their panels.
RECURSIVE all_panels(_)
all_panels(node) ==
    IF node.kind = "Panel" THEN node.panels
    ELSE all_panels(node.first) \o all_panels(node.second)

\* A &mut DockNode inside the tree is the path leading to it from the root.
RECURSIVE NodeAt(_, _)
NodeAt(node, path) ==
    IF path = <<>> THEN node
    ELSE IF Head(path) = "first" THEN NodeAt(node.first, Tail(path))
    ELSE NodeAt(node.second, Tail(path))

\* Writing through a &mut DockNode: the tree with the node at path replaced.
RECURSIVE ReplaceAt(_, _, _)
ReplaceAt(node, path, new) ==
    IF path = <<>> THEN new
    ELSE IF Head(path) = "first"
         THEN [node EXCEPT !.first = ReplaceAt(node.first, Tail(path), new)]
         ELSE [node EXCEPT !.second = ReplaceAt(node.second, Tail(path), new)]

\* DockNode::find_container_mut: the first Panel node (first child before
\* second) whose panels contain panel_id.
RECURSIVE find_container_mut(_, _)
find_container_mut(node, panel_id) ==
    IF node.kind = "Panel"
    THEN IF \E i \in 1..Len(node.panels) : node.panels[i] = panel_id
         THEN Some(<<>>) ELSE None
    ELSE LET f == find_container_mut(node.first, panel_id) IN
         IF f.some THEN Some(<<"first">> \o f.val)
         ELSE LET s == find_container_mut(node.second, panel_id) IN
              IF s.some THEN Some(<<"second">> \o s.val) ELSE None

\* DockingLayout::find_container_by_id_mut: the node itself when it carries
\* target_id (Panel or Split), else the first child's search, else the second's.
RECURSIVE find_container_by_id_mut(_, _)
find_container_by_id_mut(node, target_id) ==
    IF node.id = target_id THEN Some(<<>>)
    ELSE IF node.kind = "Split"
    THEN LET f == find_container_by_id_mut(node.first, target_id) IN
         IF f.some THEN Some(<<"first">> \o f.val)
         ELSE LET s == find_container_by_id_mut(node.second, target_id) IN
              IF s.some THEN Some(<<"second">> \o s.val) ELSE None
    ELSE None

----------------------------------------------------------------------------
(* Dock tree operations (impl DockingLayout).  An operation that mints     *)
(* DockIds takes the counter value c on entry and returns the one on exit. *)

\* DockId::new with a load in place of the fetch_add: not the code.
DockId_new_load(c) == [id |-> c, counter |-> c]

\* DockId::new: COUNTER.fetch_add(1) returns the value before the increment.
DockId_new(c) == [id |-> c, counter |-> c + 1]

\* add_panel_to_container without the assignment to active: not the code.
add_panel_to_container_keeping_active(l, panel_id, container_id) ==
    IF ~l.root.some THEN l
    ELSE LET root == l.root.val
             found == find_container_by_id_mut(root, container_id)
         IN  IF ~found.some THEN l
             ELSE LET container == NodeAt(root, found.val) IN
                  IF container.kind # "Panel" THEN l
                  ELSE LET new == [container EXCEPT
                                      !.panels = Append(container.panels, panel_id)]
                       IN  [l EXCEPT !.root = Some(ReplaceAt(root, found.val, new))]

\* DockingLayout::add_panel_to_container
add_panel_to_container(l, panel_id, container_id) ==
    IF ~l.root.some THEN l
    ELSE LET root == l.root.val
             found == find_container_by_id_mut(root, container_id)
         IN  IF ~found.some THEN l
             ELSE LET container == NodeAt(root, found.val) IN
                  IF container.kind # "Panel" THEN l
                  ELSE LET pushed == Append(container.panels, panel_id)
                           new == [container EXCEPT
                                      !.panels = pushed,
                                      !.active = Len(pushed) - 1]
                       IN  [l EXCEPT !.root = Some(ReplaceAt(root, found.val, new))]

\* adjust_active that resets the index after every removal: not the code.
adjust_active_reset(active, panels) == 0

\* adjust_active without the clamp of an index left past the end.
adjust_active_unclamped(active, panels) ==
    IF Len(panels) = 0 THEN 0 ELSE active

\* The active index remove_panel leaves, given the panels left after the removal.
adjust_active(active, panels) ==
    IF Len(panels) = 0 THEN 0
    ELSE IF active >= Len(panels) THEN Len(panels) - 1
    ELSE active

\* The body of remove_panel once the container is found: [node, ret], the
\* container after the removal and the Option<String> returned.
remove_from_container(container, panel_id) ==
    LET pos == position(container.panels, panel_id) IN
    IF ~pos.some THEN [node |-> container, ret |-> None]
    ELSE LET removed == container.panels[pos.val + 1]
             rest == vec_remove(container.panels, pos.val)
         IN  [node |-> [container EXCEPT
                           !.panels = rest,
                           !.active = adjust_active(container.active, rest)],
              ret |-> Some(removed)]

\* A subtree with every Split that has an empty container for a child
\* replaced by its other child.
RECURSIVE pruned(_)
pruned(node) ==
    IF node.kind = "Panel" THEN node
    ELSE LET f == pruned(node.first)
             s == pruned(node.second)
         IN  IF f.kind = "Panel" /\ f.panels = <<>> THEN s
             ELSE IF s.kind = "Panel" /\ s.panels = <<>> THEN f
             ELSE [node EXCEPT !.first = f, !.second = s]

\* remove_panel that prunes the containers it has emptied.
remove_panel_pruning(l, panel_id) ==
    IF ~l.root.some THEN [layout |-> l, ret |-> None]
    ELSE LET root == l.root.val
             found == find_container_mut(root, panel_id)
         IN  IF ~found.some THEN [layout |-> l, ret |-> None]
             ELSE LET r == remove_from_container(NodeAt(root, found.val), panel_id) IN
                  [layout |-> [l EXCEPT !.root =
                                  Some(pruned(ReplaceAt(root, found.val, r.node)))],
                   ret |-> r.ret]

\* DockingLayout::remove_panel: [layout, ret], ret the Option<String> returned.
remove_panel(l, panel_id) ==
    IF ~l.root.some THEN [layout |-> l, ret |-> None]
    ELSE LET root == l.root.val
             found == find_container_mut(root, panel_id)
         IN  IF ~found.some THEN [layout |-> l, ret |-> None]
             ELSE LET r == remove_from_container(NodeAt(root, found.val), panel_id) IN
                  [layout |-> [l EXCEPT !.root =
                                  Some(ReplaceAt(root, found.val, r.node))],
                   ret |-> r.ret]

\* The Split with the new container first and the old node second: not the
\* code.
split_node_of_swapped(old_node, c, direction, new_panel_id, ratio) ==
    LET placeholder == DockId_new(c)
        second_id == DockId_new(placeholder.counter)
        split_id == DockId_new(second_id.counter)
    IN  [node |-> SplitNode(direction, ratio,
                            PanelNode(<<new_panel_id>>, 0, second_id.id),
                            old_node, split_id.id),
         counter |-> split_id.counter]

\* The Split with the old node under the placeholder's DockId and the Split
\* under the old node's: not the code.
split_node_of_rekeyed(old_node, c, direction, new_panel_id, ratio) ==
    LET placeholder == DockId_new(c)
        second_id == DockId_new(placeholder.counter)
        split_id == DockId_new(second_id.counter)
    IN  [node |-> SplitNode(direction, ratio,
                            [old_node EXCEPT !.id = placeholder.id],
                            PanelNode(<<new_panel_id>>, 0, second_id.id),
                            old_node.id),
         counter |-> split_id.counter]

\* The Split that split_container_recursive puts in the place of the matched
\* Panel node: DockId::new is called three times, for the placeholder that
\* mem::replace leaves and the assignment then drops (c), for the new
\* container (c + 1) and for the Split (c + 2); old_node moves into first
\* as it is.
split_node_of(old_node, c, direction, new_panel_id, ratio) ==
    LET placeholder == DockId_new(c)
        second_id == DockId_new(placeholder.counter)
        split_id == DockId_new(second_id.counter)
    IN  [node |-> SplitNode(direction, ratio, old_node,
                            PanelNode(<<new_panel_id>>, 0, second_id.id),
                            split_id.id),
         counter |-> split_id.counter]

\* DockingLayout::split_container_recursive: [node, counter, found].
RECURSIVE split_container_recursive(_, _, _, _, _, _)
split_container_recursive(node, c, target_id, direction, new_panel_id, ratio) ==
    IF node.kind = "Panel" /\ node.id = target_id
    THEN LET r == split_node_of(node, c, direction, new_panel_id, ratio) IN
         [node |-> r.node, counter |-> r.counter, found |-> TRUE]
    ELSE IF node.kind = "Split"
    THEN LET f == split_container_recursive(node.first, c, target_id,
                                            direction, new_panel_id, ratio)
         IN  IF f.found
             THEN [node |-> [node EXCEPT !.first = f.node],
                   counter |-> f.counter, found |-> TRUE]
             ELSE LET s == split_container_recursive(node.second, c, target_id,
                                                     direction, new_panel_id, ratio)
                  IN  [node |-> [node EXCEPT !.second = s.node],
                       counter |-> s.counter, found |-> s.found]
    ELSE [node |-> node, counter |-> c, found |-> FALSE]

\* DockingLayout::split_container: [layout, counter].
split_container(l, c, container_id, direction, new_panel_id, ratio) ==
    IF ~l.root.some THEN [layout |-> l, counter |-> c]
    ELSE LET r == split_container_recursive(l.root.val, c, container_id,
                                            direction, new_panel_id, ratio)
         IN  [layout |-> [l EXCEPT !.root = Some(r.node)], counter |-> r.counter]

\* update_split_ratio_recursive without the comparison of ids: the first
\* Split met takes the ratio.
update_split_ratio_any(node, split_id, new_ratio) ==
    IF node.kind = "Split"
    THEN [node EXCEPT !.ratio = clamp(new_ratio, 10, 90)]
    ELSE node

\* DockingLayout::update_split_ratio_recursive
RECURSIVE update_split_ratio_recursive(_, _, _)
update_split_ratio_recursive(node, split_id, new_ratio) ==
    IF node.kind = "Split"
    THEN IF node.id = split_id
         THEN [node EXCEPT !.ratio = clamp(new_ratio, 10, 90)]
         ELSE [node EXCEPT
                  !.first = update_split_ratio_recursive(node.first, split_id, new_ratio),
                  !.second = update_split_ratio_recursive(node.second, split_id, new_ratio)]
    ELSE node

\* DockingLayout::update_split_ratio
update_split_ratio(l, split_id, new_ratio) ==
    IF ~l.root.some THEN l
    ELSE [l EXCEPT !.root =
             Some(update_split_ratio_recursive(l.root.val, split_id, new_ratio))]

\* undock_panel putting the new window first in the list: not the code.
undock_panel_prepend(l, c, panel_id, pos, size) ==
    LET r == remove_panel(l, panel_id) IN
    IF ~r.ret.some THEN [layout |-> l, counter |-> c]
    ELSE LET n == DockId_new(c) IN
         [layout |-> [r.layout EXCEPT !.floating =
                         <<FloatingWindow(<<r.ret.val>>, 0, pos, size, n.id)>>
                         \o r.layout.floating],
          counter |-> n.counter]

\* DockingLayout::undock_panel: [layout, counter].
undock_panel(l, c, panel_id, pos, size) ==
    LET r == remove_panel(l, panel_id) IN
    IF ~r.ret.some THEN [layout |-> l, counter |-> c]
    ELSE LET n == DockId_new(c) IN
         [layout |-> [r.layout EXCEPT !.floating =
                         Append(r.layout.floating,
                                FloatingWindow(<<r.ret.val>>, 0, pos, size, n.id))],
          counter |-> n.counter]

\* The match on the zone in dock_floating_window, for one panel of the window.
dock_panel_by_zone(l, c, panel, target_container, zone) ==
    CASE zone = "Center" ->
             [layout |-> add_panel_to_container(l, panel, target_container),
              counter |-> c]
      [] zone = "Left" ->
             split_container(l, c, target_container, "Horizontal", panel, 50)
      [] zone = "Right" ->
             split_container(l, c, target_container, "Horizontal", panel, 50)
      [] zone = "Top" ->
             split_container(l, c, target_container, "Vertical", panel, 50)
      [] zone = "Bottom" ->
             split_container(l, c, target_container, "Vertical", panel, 50)

\* The loop of dock_floating_window stopping after the window's first panel:
\* not the code.
dock_window_panels_first_only(l, c, panels, target_container, zone) ==
    IF panels = <<>> THEN [layout |-> l, counter |-> c]
    ELSE dock_panel_by_zone(l, c, Head(panels), target_container, zone)

\* The for loop of dock_floating_window over window.panels.
RECURSIVE dock_window_panels(_, _, _, _, _)
dock_window_panels(l, c, panels, target_container, zone) ==
    IF panels = <<>> THEN [layout |-> l, counter |-> c]
    ELSE LET r == dock_panel_by_zone(l, c, Head(panels), target_container, zone) IN
         dock_window_panels(r.layout, r.counter, Tail(panels), target_container, zone)

\* floating.iter().position(|w| w.id == window_id), 0-based.
window_position(floating, window_id) ==
    IF \E i \in 1..Len(floating) : floating[i].id = window_id
    THEN Some((CHOOSE i \in 1..Len(floating) :
                  floating[i].id = window_id
                  /\ \A j \in 1..(i - 1) : floating[j].id # window_id) - 1)
    ELSE None

\* dock_floating_window leaving the window in the floating list: not the
\* code.
dock_floating_window_keeping(l, c, window_id, target_container, zone) ==
    LET pos == window_position(l.floating, window_id) IN
    IF ~pos.some THEN [layout |-> l, counter |-> c]
    ELSE dock_window_panels(l, c, l.floating[pos.val + 1].panels,
                            target_container, zone)

\* DockingLayout::dock_floating_window: [layout, counter].
dock_floating_window(l, c, window_id, target_container, zone) ==
    LET pos == window_position(l.floating, window_id) IN
    IF ~pos.some THEN [layout |-> l, counter |-> c]
    ELSE LET window == l.floating[pos.val + 1]
             without == [l EXCEPT !.floating = vec_remove(l.floating, pos.val)]
         IN  dock_window_panels(without, c, window.panels, target_container, zone)

----------------------------------------------------------------------------
(* Observations of a layout *)

\* Every node of a subtree, root first.
RECURSIVE Nodes(_)
Nodes(node) ==
    IF node.kind = "Panel" THEN <<node>>
    ELSE <<node>> \o Nodes(node.first) \o Nodes(node.second)

TreeNodes(l) == IF l.root.some THEN Nodes(l.root.val) ELSE <<>>

RECURSIVE FloatingPanels(_)
FloatingPanels(floating) ==
    IF floating = <<>> THEN <<>>
    ELSE Head(floating).panels \o FloatingPanels(Tail(floating))

\* The number of panel entries held by the tree and the floating windows.
PanelCount(l) ==
    (IF l.root.some THEN Len(all_panels(l.root.val)) ELSE 0)
    + Len(FloatingPanels(l.floating))

\* The DockIds of the tree's nodes followed by those of the floating windows.
AllIds(l) ==
    LET nodes == TreeNodes(l) IN
    [i \in 1..Len(nodes) |-> nodes[i].id]
    \o [i \in 1..Len(l.floating) |-> l.floating[i].id]

\* The ids of the Panel nodes of a subtree.
RECURSIVE PanelNodeIds(_)
PanelNodeIds(node) ==
    IF node.kind = "Panel" THEN {node.id}
    ELSE PanelNodeIds(node.first) \cup PanelNodeIds(node.second)

\* The ids of the Split nodes of a subtree.
RECURSIVE SplitNodeIds(_)
SplitNodeIds(node) ==
    IF node.kind = "Panel" THEN {}
    ELSE {node.id} \cup SplitNodeIds(node.first) \cup SplitNodeIds(node.second)

ContainerIds(l) == IF l.root.some THEN PanelNodeIds(l.root.val) ELSE {}

SplitIds(l) == IF l.root.some THEN SplitNodeIds(l.root.val) ELSE {}

FloatingIds(l) == {l.floating[i].id : i \in 1..Len(l.floating)}

----------------------------------------------------------------------------
(* State after construction *)

\* DockDragState::default()
DockDragState_default ==
    [dragging |-> None, source_container |-> None, drop_target |-> None,
     drop_zone |-> None, drag_position |-> <<0, 0>>,
     potential_drag_panel |-> None, potential_drag_container |-> None,
     drag_start_position |-> None]

\* DividerDragState::default()
DividerDragState_default ==
    [dragging |-> None, original_ratio |-> 0, start_position |-> <<0, 0>>]

\* No button transition, nothing under the pointer.
NoInput ==
    [just_pressed |-> FALSE, pressed |-> FALSE, just_released |-> FALSE,
     cursor |-> None, hovered |-> None, over |-> None,
     pressed_divider |-> None]

NoCall == [op |-> "none", args |-> <<>>, ret |-> None]

NoFile == [exists |-> FALSE]

\* init_resource::<DockingLayout>() builds the default layout once, with the
\* process's fresh counter; no layout file has been written.
Init ==
    /\ layout = DefaultDockingLayout(0)
    /\ COUNTER = 5
    /\ call = NoCall
    /\ drag = DockDragState_default
    /\ divider = DividerDragState_default
    /\ input = NoInput
    /\ ran = {}
    /\ file = NoFile
    /\ loaded = FALSE

----------------------------------------------------------------------------
(* Calls of the public operations by the host, between systems.  Each      *)
(* takes the sets its arguments are drawn from.                            *)

\* The DockIds a caller passes: those of the layout's nodes and floating
\* windows, and one that DockId::new never returns within the bound.
DockIds ==
    ContainerIds(layout) \cup SplitIds(layout) \cup FloatingIds(layout) \cup {MaxId}

\* Requested ratios: NaN, below, on and above the clamp bounds.
Ratios == {NaN, -500, 10, 50, 90, 500}

Positions == {<<10, 10>>}
Sizes == {<<40, 30>>}

\* The host calls an operation only when the previous one has returned
\* (call = NoCall); the call record shows the operation, its arguments and
\* what it returned.
Called(op, args, ret) == call' = [op |-> op, args |-> args, ret |-> ret]

\* The operation has returned to its caller.
Return ==
    /\ call # NoCall
    /\ call' = NoCall
    /\ UNCHANGED <<layout, COUNTER, drag, divider, input, ran, file, loaded>>

AddPanelCall(panels, ids) ==
    /\ call = NoCall
    /\ \E panel_id \in panels, container_id \in ids :
        LET l == add_panel_to_container(layout, panel_id, container_id) IN
        /\ PanelCount(l) <= MaxPanels
        /\ layout' = l
        /\ Called("add_panel_to_container", <<panel_id, container_id>>, None)
        /\ UNCHANGED <<COUNTER, drag, divider, input, ran, file, loaded>>

RemovePanelCall(panels) ==
    /\ call = NoCall
    /\ \E panel_id \in panels :
        LET r == remove_panel(layout, panel_id) IN
        /\ layout' = r.layout
        /\ Called("remove_panel", <<panel_id>>, r.ret)
        /\ UNCHANGED <<COUNTER, drag, divider, input, ran, file, loaded>>

SplitContainerCall(ids, dirs, panels, ratios) ==
    /\ call = NoCall
    /\ \E container_id \in ids, direction \in dirs, new_panel_id \in panels,
       ratio \in ratios :
        LET r == split_container(layout, COUNTER, container_id, direction,
                                 new_panel_id, ratio) IN
        /\ r.counter <= MaxId
        /\ PanelCount(r.layout) <= MaxPanels
        /\ layout' = r.layout
        /\ COUNTER' = r.counter
        /\ Called("split_container",
                  <<container_id, direction, new_panel_id, ratio>>, None)
        /\ UNCHANGED <<drag, divider, input, ran, file, loaded>>

UpdateSplitRatioCall(ids, ratios) ==
    /\ call = NoCall
    /\ \E split_id \in ids, new_ratio \in ratios :
        /\ layout' = update_split_ratio(layout, split_id, new_ratio)
        /\ Called("update_split_ratio", <<split_id, new_ratio>>, None)
        /\ UNCHANGED <<COUNTER, drag, divider, input, ran, file, loaded>>

UndockPanelCall(panels) ==
    /\ call = NoCall
    /\ \E panel_id \in panels, pos \in Positions, size \in Sizes :
        LET r == undock_panel(layout, COUNTER, panel_id, pos, size) IN
        /\ r.counter <= MaxId
        /\ layout' = r.layout
        /\ COUNTER' = r.counter
        /\ Called("undock_panel", <<panel_id, pos, size>>, None)
        /\ UNCHANGED <<drag, divider, input, ran, file, loaded>>

DockFloatingWindowCall(ids, zones) ==
    /\ call = NoCall
    /\ \E window_id \in ids, target_container \in ids, zone \in zones :
        LET r == dock_floating_window(layout, COUNTER, window_id,
                                      target_container, zone) IN
        /\ r.counter <= MaxId
        /\ layout' = r.layout
        /\ COUNTER' = r.counter
        /\ Called("dock_floating_window",
                  <<window_id, target_container, zone>>, None)
        /\ UNCHANGED <<drag, divider, input, ran, file, loaded>>

----------------------------------------------------------------------------
(* Drag-to-dock systems.  Pixel positions are integers; a normalized       *)
(* position is in hundredths, as ratios are.                               *)

\* const DRAG_THRESHOLD: f32 = 5.0 (pixels)
DRAG_THRESHOLD == 5

\* window.width() and window.height(): one pixel is a hundredth of the window.
WindowWidth == 100
WindowHeight == 100

\* cursor_pos.distance(start_pos) > DRAG_THRESHOLD, on the squares.
distance_exceeds(a, b, threshold) ==
    (a[1] - b[1]) * (a[1] - b[1]) + (a[2] - b[2]) * (a[2] - b[2])
        > threshold * threshold

\* The chain of handle_panel_drag_over with the vertical zones first: not
\* the code.
drag_over_zone_vertical_first(pos) ==
    IF pos[2] < 30 THEN "Top"
    ELSE IF pos[2] > 70 THEN "Bottom"
    ELSE IF pos[1] < 30 THEN "Left"
    ELSE IF pos[1] > 70 THEN "Right"
    ELSE "Center"

\* The if/else chain of handle_panel_drag_over on the position within the
\* container.
drag_over_zone(pos) ==
    IF pos[1] < 30 THEN "Left"
    ELSE IF pos[1] > 70 THEN "Right"
    ELSE IF pos[2] < 30 THEN "Top"
    ELSE IF pos[2] > 70 THEN "Bottom"
    ELSE "Center"

\* The if/else chain of update_drop_zone_from_cursor on the position within
\* the window.
cursor_zone(rel_x, rel_y) ==
    IF rel_x < 30 THEN "Left"
    ELSE IF rel_x > 70 THEN "Right"
    ELSE IF rel_y < 30 THEN "Top"
    ELSE IF rel_y > 70 THEN "Bottom"
    ELSE "Center"

\* (0.0..=1.0).contains(&pos.x) && (0.0..=1.0).contains(&pos.y)
in_bounds(pos) ==
    /\ 0 <= pos[1] /\ pos[1] <= 100
    /\ 0 <= pos[2] /\ pos[2] <= 100

\* handle_panel_drag_start: the DockDragState it leaves.  hovered is the
\* header or tab whose Interaction is Hovered or Pressed, if any.
handle_panel_drag_start(d, i) ==
    IF i.just_pressed /\ i.cursor.some
    THEN LET d1 == [d EXCEPT !.drag_start_position = Some(i.cursor.val)] IN
         IF i.hovered.some
         THEN [d1 EXCEPT
                 !.potential_drag_panel = Some(i.hovered.val.panel_id),
                 !.potential_drag_container = Some(i.hovered.val.container_id)]
         ELSE d1
    ELSE d

\* activate_drag_on_threshold with distance >= DRAG_THRESHOLD: not the code.
activate_drag_on_threshold_inclusive(d, i) ==
    LET d1 == IF /\ d.potential_drag_panel.some
                 /\ i.pressed
                 /\ i.cursor.some
                 /\ d.drag_start_position.some
                 /\ distance_exceeds(i.cursor.val, d.drag_start_position.val,
                                     DRAG_THRESHOLD - 1)
              THEN [d EXCEPT !.dragging = d.potential_drag_panel,
                             !.potential_drag_panel = None,
                             !.source_container = d.potential_drag_container,
                             !.potential_drag_container = None,
                             !.drag_position = i.cursor.val,
                             !.drag_start_position = None]
              ELSE d
    IN  IF i.just_released
        THEN [d1 EXCEPT !.potential_drag_panel = None,
                        !.potential_drag_container = None,
                        !.drag_start_position = None]
        ELSE d1

\* activate_drag_on_threshold: the DockDragState it leaves.
activate_drag_on_threshold(d, i) ==
    LET d1 == IF /\ d.potential_drag_panel.some
                 /\ i.pressed
                 /\ i.cursor.some
                 /\ d.drag_start_position.some
                 /\ distance_exceeds(i.cursor.val, d.drag_start_position.val,
                                     DRAG_THRESHOLD)
              THEN [d EXCEPT !.dragging = d.potential_drag_panel,
                             !.potential_drag_panel = None,
                             !.source_container = d.potential_drag_container,
                             !.potential_drag_container = None,
                             !.drag_position = i.cursor.val,
                             !.drag_start_position = None]
              ELSE d
    IN  IF i.just_released
        THEN [d1 EXCEPT !.potential_drag_panel = None,
                        !.potential_drag_container = None,
                        !.drag_start_position = None]
        ELSE d1

\* handle_panel_drag_over ending the drag when the pointer is over no
\* container: not the code.
handle_panel_drag_over_cancelling(d, i) ==
    IF ~d.dragging.some THEN d
    ELSE LET d1 == [d EXCEPT !.drop_target = None, !.drop_zone = None] IN
         IF i.over.some /\ in_bounds(i.over.val.pos)
         THEN [d1 EXCEPT !.drop_target = Some(i.over.val.id),
                         !.drop_zone = Some(drag_over_zone(i.over.val.pos))]
         ELSE [d1 EXCEPT !.dragging = None, !.source_container = None]

\* handle_panel_drag_over: the DockDragState it leaves.  over is the
\* DockContainer whose RelativeCursorPosition is Some, with that position.
handle_panel_drag_over(d, i) ==
    IF ~d.dragging.some THEN d
    ELSE LET d1 == [d EXCEPT !.drop_target = None, !.drop_zone = None] IN
         IF i.over.some /\ in_bounds(i.over.val.pos)
         THEN [d1 EXCEPT !.drop_target = Some(i.over.val.id),
                         !.drop_zone = Some(drag_over_zone(i.over.val.pos))]
         ELSE d1

\* update_drop_zone_from_cursor: the DockDragState it leaves.  containers
\* are the ids of the DockContainer entities.
update_drop_zone_from_cursor(d, i, containers) ==
    IF ~d.dragging.some THEN d
    ELSE IF d.drop_target.some /\ i.cursor.some
            /\ d.drop_target.val \in containers
    THEN LET rel_x == clamp((i.cursor.val[1] * 100) \div WindowWidth, 0, 100)
             rel_y == clamp((i.cursor.val[2] * 100) \div WindowHeight, 0, 100)
         IN  [d EXCEPT !.drop_zone = Some(cursor_zone(rel_x, rel_y))]
    ELSE d

\* The match of handle_panel_drop with the directions exchanged: not the
\* code.
drop_by_zone_transposed(l, c, panel_id, target_container, drop_zone) ==
    CASE drop_zone = "Center" ->
             [layout |-> add_panel_to_container(l, panel_id, target_container),
              counter |-> c]
      [] drop_zone \in {"Left", "Right"} ->
             split_container(l, c, target_container, "Vertical", panel_id, 50)
      [] drop_zone \in {"Top", "Bottom"} ->
             split_container(l, c, target_container, "Horizontal", panel_id, 50)

\* The match on drop_zone in handle_panel_drop: [layout, counter].
drop_by_zone(l, c, panel_id, target_container, drop_zone) ==
    CASE drop_zone = "Center" ->
             [layout |-> add_panel_to_container(l, panel_id, target_container),
              counter |-> c]
      [] drop_zone = "Left" ->
             split_container(l, c, target_container, "Horizontal", panel_id, 50)
      [] drop_zone = "Right" ->
             split_container(l, c, target_container, "Horizontal", panel_id, 50)
      [] drop_zone = "Top" ->
             split_container(l, c, target_container, "Vertical", panel_id, 50)
      [] drop_zone = "Bottom" ->
             split_container(l, c, target_container, "Vertical", panel_id, 50)

\* handle_panel_drop ignoring a drop on the container the drag began in: not
\* the code.
handle_panel_drop_elsewhere(l, c, d, i) ==
    IF ~i.just_released THEN [layout |-> l, counter |-> c, drag |-> d]
    ELSE LET r == IF /\ d.dragging.some /\ d.drop_target.some /\ d.drop_zone.some
                     /\ d.drop_target # d.source_container
                  THEN drop_by_zone(remove_panel(l, d.dragging.val).layout, c,
                                    d.dragging.val, d.drop_target.val,
                                    d.drop_zone.val)
                  ELSE [layout |-> l, counter |-> c]
         IN  [layout |-> r.layout, counter |-> r.counter,
              drag |-> [d EXCEPT !.dragging = None, !.source_container = None,
                                 !.drop_target = None, !.drop_zone = None]]

\* handle_panel_drop performing the drop as soon as a target and a zone are
\* recorded, the button still held: not the code.
handle_panel_drop_speculative(l, c, d, i) ==
    IF d.dragging.some /\ d.drop_target.some /\ d.drop_zone.some
    THEN LET r == drop_by_zone(remove_panel(l, d.dragging.val).layout, c,
                               d.dragging.val, d.drop_target.val,
                               d.drop_zone.val)
         IN  [layout |-> r.layout, counter |-> r.counter,
              drag |-> [d EXCEPT !.dragging = None, !.source_container = None,
                                 !.drop_target = None, !.drop_zone = None]]
    ELSE IF i.just_released
    THEN [layout |-> l, counter |-> c,
          drag |-> [d EXCEPT !.dragging = None, !.source_container = None,
                             !.drop_target = None, !.drop_zone = None]]
    ELSE [layout |-> l, counter |-> c, drag |-> d]

\* handle_panel_drop leaving the panel in the container it came from: not
\* the code.
handle_panel_drop_copying(l, c, d, i) ==
    IF ~i.just_released THEN [layout |-> l, counter |-> c, drag |-> d]
    ELSE LET r == IF d.dragging.some /\ d.drop_target.some /\ d.drop_zone.some
                  THEN drop_by_zone(l, c, d.dragging.val, d.drop_target.val,
                                    d.drop_zone.val)
                  ELSE [layout |-> l, counter |-> c]
         IN  [layout |-> r.layout, counter |-> r.counter,
              drag |-> [d EXCEPT !.dragging = None, !.source_container = None,
                                 !.drop_target = None, !.drop_zone = None]]

\* handle_panel_drop: [layout, counter, drag].
handle_panel_drop(l, c, d, i) ==
    IF ~i.just_released THEN [layout |-> l, counter |-> c, drag |-> d]
    ELSE LET r == IF d.dragging.some /\ d.drop_target.some /\ d.drop_zone.some
                  THEN drop_by_zone(remove_panel(l, d.dragging.val).layout, c,
                                    d.dragging.val, d.drop_target.val,
                                    d.drop_zone.val)
                  ELSE [layout |-> l, counter |-> c]
         IN  [layout |-> r.layout, counter |-> r.counter,
              drag |-> [d EXCEPT !.dragging = None, !.source_container = None,
                                 !.drop_target = None, !.drop_zone = None]]

----------------------------------------------------------------------------
(* Frames.  In a frame every system runs once, in an order the schedule    *)
(* does not fix; ran holds the systems that have run in the current frame. *)
(* The mouse button makes at most one transition per frame.                *)

\* The PanelHeader and PanelTab entities build_node_ui spawns for a subtree:
\* a header for a container of one panel, a tab per panel otherwise.
RECURSIVE NodeHeaders(_)
NodeHeaders(node) ==
    IF node.kind = "Panel"
    THEN {[panel_id |-> node.panels[k], container_id |-> node.id] :
             k \in 1..Len(node.panels)}
    ELSE NodeHeaders(node.first) \cup NodeHeaders(node.second)

Headers(l) == IF l.root.some THEN NodeHeaders(l.root.val) ELSE {}

\* ButtonInput<MouseButton> in a frame, by what happened to the left button.
ButtonUp == [just_pressed |-> FALSE, pressed |-> FALSE, just_released |-> FALSE]
ButtonDown == [just_pressed |-> TRUE, pressed |-> TRUE, just_released |-> FALSE]
ButtonHeld == [just_pressed |-> FALSE, pressed |-> TRUE, just_released |-> FALSE]
ButtonReleased == [just_pressed |-> FALSE, pressed |-> FALSE, just_released |-> TRUE]

\* The button in the frame after one where it was as in i.
NextButtons(i) ==
    IF i.pressed THEN {ButtonHeld, ButtonReleased} ELSE {ButtonUp, ButtonDown}

FrameInput(b, cursor, hovered, over, pressed_divider) ==
    [just_pressed |-> b.just_pressed, pressed |-> b.pressed,
     just_released |-> b.just_released,
     cursor |-> cursor, hovered |-> hovered, over |-> over,
     pressed_divider |-> pressed_divider]

\* The UI elements under the pointer at a press: nothing, one header or tab,
\* or one divider.
PressedElements(headers, dividers) ==
    {[hovered |-> h, pressed_divider |-> None] : h \in Option(headers)}
    \cup {[hovered |-> None, pressed_divider |-> Some(d)] : d \in dividers}

\* The inputs of the next frame.  What no system reads in that frame is left
\* at None: the pointer while the button is up, the element under the
\* pointer except on a press, the container under the pointer unless a drag
\* has begun.
NextInputsOf(buttons, presses, cursors, headers, overs, dividers) ==
    LET live == \/ drag.dragging.some
                \/ drag.potential_drag_panel.some
                \/ divider.dragging.some
    IN
    UNION {UNION {{FrameInput(b, cursor, e.hovered, over, e.pressed_divider) :
                      e \in IF b.just_pressed /\ cursor.some
                            THEN PressedElements(headers, dividers)
                            ELSE PressedElements({}, {}),
                      over \in IF live /\ ~b.just_pressed /\ cursor.some
                               THEN Option(overs) ELSE {None}} :
                  cursor \in IF b.just_pressed THEN Option(presses)
                             ELSE IF live THEN Option(cursors)
                             ELSE {None}} :
           b \in buttons}

\* The inputs of the next frame when the button makes at most one transition
\* in a frame.
NextInputs(presses, cursors, headers, overs, dividers) ==
    NextInputsOf(NextButtons(input), presses, cursors, headers, overs, dividers)

\* The next frame begins: every system of the schedule has run.
NewFrame(systems, presses, cursors, headers, overs, dividers) ==
    /\ call = NoCall
    /\ ran = systems
    /\ input' \in NextInputs(presses, cursors, headers, overs, dividers)
    /\ ran' = {}
    /\ UNCHANGED <<layout, COUNTER, call, drag, divider, file, loaded>>

\* ButtonInput<MouseButton> in a frame with two transitions: press() then
\* release() leaves the button in just_pressed and just_released and not in
\* pressed; release() then press() leaves it in all three.
ButtonTapped == [just_pressed |-> TRUE, pressed |-> FALSE, just_released |-> TRUE]
ButtonRepressed == [just_pressed |-> TRUE, pressed |-> TRUE, just_released |-> TRUE]

\* The button in the frame after one where it was as in i, with up to two
\* transitions in a frame.
NextButtonsWithTaps(i) ==
    IF i.pressed THEN {ButtonHeld, ButtonReleased, ButtonRepressed}
    ELSE {ButtonUp, ButtonDown, ButtonTapped}

\* The next frame begins, the button having made up to two transitions.
NewFrameWithTaps(systems, presses, cursors, headers, overs, dividers) ==
    /\ call = NoCall
    /\ ran = systems
    /\ input' \in NextInputsOf(NextButtonsWithTaps(input), presses, cursors,
                              headers, overs, dividers)
    /\ ran' = {}
    /\ UNCHANGED <<layout, COUNTER, call, drag, divider, file, loaded>>

HandlePanelDragStart ==
    /\ call = NoCall
    /\ "handle_panel_drag_start" \notin ran
    /\ drag' = handle_panel_drag_start(drag, input)
    /\ ran' = ran \cup {"handle_panel_drag_start"}
    /\ UNCHANGED <<layout, COUNTER, call, divider, input, file, loaded>>

ActivateDragOnThreshold ==
    /\ call = NoCall
    /\ "activate_drag_on_threshold" \notin ran
    /\ drag' = activate_drag_on_threshold(drag, input)
    /\ ran' = ran \cup {"activate_drag_on_threshold"}
    /\ UNCHANGED <<layout, COUNTER, call, divider, input, file, loaded>>

HandlePanelDragOver ==
    /\ call = NoCall
    /\ "handle_panel_drag_over" \notin ran
    /\ drag' = handle_panel_drag_over(drag, input)
    /\ ran' = ran \cup {"handle_panel_drag_over"}
    /\ UNCHANGED <<layout, COUNTER, call, divider, input, file, loaded>>

UpdateDropZoneFromCursor ==
    /\ call = NoCall
    /\ "update_drop_zone_from_cursor" \notin ran
    /\ drag' = update_drop_zone_from_cursor(drag, input, ContainerIds(layout))
    /\ ran' = ran \cup {"update_drop_zone_from_cursor"}
    /\ UNCHANGED <<layout, COUNTER, call, divider, input, file, loaded>>

HandlePanelDrop ==
    /\ call = NoCall
    /\ "handle_panel_drop" \notin ran
    /\ LET r == handle_panel_drop(layout, COUNTER, drag, input) IN
        /\ r.counter <= MaxId
        /\ layout' = r.layout
        /\ COUNTER' = r.counter
        /\ drag' = r.drag
    /\ ran' = ran \cup {"handle_panel_drop"}
    /\ UNCHANGED <<call, divider, input, file, loaded>>

\* Pointer positions in the window: where the button goes down, and where
\* the pointer is afterwards: 5 pixels from there, 6 pixels from there, and
\* in the middle of the Viewport container.
DragPresses == {<<35, 2>>}
DragCursors == {<<38, 6>>, <<35, 8>>, <<35, 50>>}

\* The container under the pointer and the pointer's position within it.
DragOvers ==
    {[id |-> id, pos |-> pos] :
        id \in ContainerIds(layout),
        pos \in {<<50, 50>>, <<20, 50>>}}

\* The headers and tabs of the Viewport panel.
DragHeaders == {h \in Headers(layout) : h.panel_id = "Viewport"}

\* The systems of the drag-to-dock session.
DragSystems ==
    {"handle_panel_drag_start", "activate_drag_on_threshold",
     "handle_panel_drag_over", "update_drop_zone_from_cursor",
     "handle_panel_drop"}

----------------------------------------------------------------------------
(* Tab switching *)

\* The PanelTab entities build_panel_container spawns for a subtree: a tab
\* per panel of every container that holds no panel or more than one.
RECURSIVE NodeTabs(_)
NodeTabs(node) ==
    IF node.kind = "Panel"
    THEN IF Len(node.panels) = 1 THEN {}
         ELSE {[panel_id |-> node.panels[k], container_id |-> node.id] :
                  k \in 1..Len(node.panels)}
    ELSE NodeTabs(node.first) \cup NodeTabs(node.second)

Tabs(l) == IF l.root.some THEN NodeTabs(l.root.val) ELSE {}

\* set_active_panel_recursive setting the index after the clicked tab's: not
\* the code.
RECURSIVE set_active_panel_recursive_next(_, _, _)
set_active_panel_recursive_next(node, container_id, panel_id) ==
    IF node.kind = "Panel"
    THEN LET index == position(node.panels, panel_id) IN
         IF node.id = container_id /\ index.some
         THEN [node EXCEPT !.active = index.val + 1]
         ELSE node
    ELSE [node EXCEPT
             !.first = set_active_panel_recursive_next(node.first, container_id,
                                                       panel_id),
             !.second = set_active_panel_recursive_next(node.second, container_id,
                                                        panel_id)]

\* set_active_panel_recursive: the subtree it leaves.
RECURSIVE set_active_panel_recursive(_, _, _)
set_active_panel_recursive(node, container_id, panel_id) ==
    IF node.kind = "Panel"
    THEN LET index == position(node.panels, panel_id) IN
         IF node.id = container_id /\ index.some
         THEN [node EXCEPT !.active = index.val]
         ELSE node
    ELSE [node EXCEPT
             !.first = set_active_panel_recursive(node.first, container_id,
                                                  panel_id),
             !.second = set_active_panel_recursive(node.second, container_id,
                                                   panel_id)]

\* handle_tab_clicks: the DockingLayout it leaves.  tabs are the PanelTab
\* entities; the Interaction of the one under the pointer changes to Pressed
\* in the frame the button goes down.
handle_tab_clicks(l, i, tabs) ==
    IF i.just_pressed /\ i.hovered.some /\ i.hovered.val \in tabs /\ l.root.some
    THEN [l EXCEPT !.root =
             Some(set_active_panel_recursive(l.root.val,
                                             i.hovered.val.container_id,
                                             i.hovered.val.panel_id))]
    ELSE l

HandleTabClicks ==
    /\ call = NoCall
    /\ "handle_tab_clicks" \notin ran
    /\ layout' = handle_tab_clicks(layout, input, Tabs(layout))
    /\ ran' = ran \cup {"handle_tab_clicks"}
    /\ UNCHANGED <<COUNTER, call, drag, divider, input, file, loaded>>

\* The systems of tab switching.
TabSystems == {"handle_tab_clicks"}

----------------------------------------------------------------------------
(* Divider resize systems *)

\* The SplitDivider entities build_split_container spawns for a subtree: one
\* for each Split.
RECURSIVE NodeDividers(_)
NodeDividers(node) ==
    IF node.kind = "Panel" THEN {}
    ELSE {[split_id |-> node.id, direction |-> node.direction]}
         \cup NodeDividers(node.first) \cup NodeDividers(node.second)

Dividers(l) == IF l.root.some THEN NodeDividers(l.root.val) ELSE {}

\* find_split_ratio: the ratio of the first Split (the node, then its first
\* child's subtree, then its second's) with the id.
RECURSIVE find_split_ratio(_, _)
find_split_ratio(node, split_id) ==
    IF node.kind = "Split"
    THEN IF node.id = split_id THEN Some(node.ratio)
         ELSE LET f == find_split_ratio(node.first, split_id) IN
              IF f.some THEN f ELSE find_split_ratio(node.second, split_id)
    ELSE None

\* f32 addition: NaN plus anything is NaN.
f32_add(a, b) == IF a = NaN \/ b = NaN THEN NaN ELSE a + b

\* handle_divider_drag_start: the DividerDragState it leaves.
\* pressed_divider is the divider whose Interaction has changed to Pressed.
handle_divider_drag_start(dv, l, i) ==
    IF i.just_pressed /\ i.pressed_divider.some
    THEN LET split_id == i.pressed_divider.val.split_id
             found == IF l.root.some THEN find_split_ratio(l.root.val, split_id)
                      ELSE None
             ratio == IF found.some THEN found.val ELSE 50
         IN  IF i.cursor.some
             THEN [dragging |-> Some(split_id), original_ratio |-> ratio,
                   start_position |-> i.cursor.val]
             ELSE dv
    ELSE dv

\* handle_divider_drag that resizes only once the pointer is more than
\* DRAG_THRESHOLD from the press position: not the code.
handle_divider_drag_after_threshold(dv, l, i, dividers) ==
    IF ~dv.dragging.some \/ ~i.pressed THEN l
    ELSE IF ~i.cursor.some THEN l
    ELSE IF ~distance_exceeds(i.cursor.val, dv.start_position, DRAG_THRESHOLD)
    THEN l
    ELSE LET dragged_id == dv.dragging.val
             matching == {d \in dividers : d.split_id = dragged_id}
         IN  IF matching = {} THEN l
             ELSE LET d == CHOOSE m \in matching : TRUE
                      delta == IF d.direction = "Horizontal"
                               THEN i.cursor.val[1] - dv.start_position[1]
                               ELSE i.cursor.val[2] - dv.start_position[2]
                      parent_size == IF d.direction = "Horizontal"
                                     THEN WindowWidth ELSE WindowHeight
                      delta_ratio == (delta * 100) \div parent_size
                      new_ratio == clamp(f32_add(dv.original_ratio, delta_ratio),
                                         10, 90)
                  IN  update_split_ratio(l, dragged_id, new_ratio)

\* handle_divider_drag adding the displacement to the ratio the Split has in
\* this frame: not the code.
handle_divider_drag_from_current(dv, l, i, dividers) ==
    IF ~dv.dragging.some \/ ~i.pressed THEN l
    ELSE IF ~i.cursor.some THEN l
    ELSE LET dragged_id == dv.dragging.val
             matching == {d \in dividers : d.split_id = dragged_id}
         IN  IF matching = {} THEN l
             ELSE LET d == CHOOSE m \in matching : TRUE
                      delta == IF d.direction = "Horizontal"
                               THEN i.cursor.val[1] - dv.start_position[1]
                               ELSE i.cursor.val[2] - dv.start_position[2]
                      parent_size == IF d.direction = "Horizontal"
                                     THEN WindowWidth ELSE WindowHeight
                      delta_ratio == (delta * 100) \div parent_size
                      current == find_split_ratio(l.root.val, dragged_id).val
                      new_ratio == clamp(f32_add(current, delta_ratio), 10, 90)
                  IN  update_split_ratio(l, dragged_id, new_ratio)

\* handle_divider_drag: the DockingLayout it leaves.  dividers are the
\* SplitDivider entities.
handle_divider_drag(dv, l, i, dividers) ==
    IF ~dv.dragging.some \/ ~i.pressed THEN l
    ELSE IF ~i.cursor.some THEN l
    ELSE LET dragged_id == dv.dragging.val
             matching == {d \in dividers : d.split_id = dragged_id}
         IN  IF matching = {} THEN l
             ELSE LET d == CHOOSE m \in matching : TRUE
                      delta == IF d.direction = "Horizontal"
                               THEN i.cursor.val[1] - dv.start_position[1]
                               ELSE i.cursor.val[2] - dv.start_position[2]
                      parent_size == IF d.direction = "Horizontal"
                                     THEN WindowWidth ELSE WindowHeight
                      delta_ratio == (delta * 100) \div parent_size
                      new_ratio == clamp(f32_add(dv.original_ratio, delta_ratio),
                                         10, 90)
                  IN  update_split_ratio(l, dragged_id, new_ratio)

\* handle_divider_drag_end keeping the session: not the code.
handle_divider_drag_end_never(dv, i) == dv

\* handle_divider_drag_end: the DividerDragState it leaves.
handle_divider_drag_end(dv, i) ==
    IF i.just_released THEN [dv EXCEPT !.dragging = None] ELSE dv

HandleDividerDragStart ==
    /\ call = NoCall
    /\ "handle_divider_drag_start" \notin ran
    /\ divider' = handle_divider_drag_start(divider, layout, input)
    /\ ran' = ran \cup {"handle_divider_drag_start"}
    /\ UNCHANGED <<layout, COUNTER, call, drag, input, file, loaded>>

\* The SplitDivider that the loop of handle_divider_drag can meet first among
\* those with the dragged split_id: the query's order is not fixed.
FirstDividers(dv, dividers) ==
    LET matching == {d \in dividers :
                        dv.dragging.some /\ d.split_id = dv.dragging.val}
    IN  IF matching = {} THEN {{}} ELSE {{d} : d \in matching}

HandleDividerDrag ==
    /\ call = NoCall
    /\ "handle_divider_drag" \notin ran
    /\ \E first \in FirstDividers(divider, Dividers(layout)) :
          layout' = handle_divider_drag(divider, layout, input, first)
    /\ ran' = ran \cup {"handle_divider_drag"}
    /\ UNCHANGED <<COUNTER, call, drag, divider, input, file, loaded>>

HandleDividerDragEnd ==
    /\ call = NoCall
    /\ "handle_divider_drag_end" \notin ran
    /\ divider' = handle_divider_drag_end(divider, input)
    /\ ran' = ran \cup {"handle_divider_drag_end"}
    /\ UNCHANGED <<layout, COUNTER, call, drag, input, file, loaded>>

\* The systems of the divider resize session.
DividerSystems ==
    {"handle_divider_drag_start", "handle_divider_drag",
     "handle_divider_drag_end"}

----------------------------------------------------------------------------
(* Persistence.  The file holds the JSON text serde_json wrote; a JSON     *)
(* value is the tree with every f32 as serde_json writes it.               *)

\* serde_json writes a NaN f32 as null, and a finite one as a number that
\* reads back as the same f32.
JsonNull == [type |-> "null"]
JsonNumber(x) == [type |-> "number", value |-> x]

f32_to_json(x) == IF x = NaN THEN JsonNull ELSE JsonNumber(x)

RECURSIVE node_to_json(_)
node_to_json(node) ==
    IF node.kind = "Panel" THEN node
    ELSE [node EXCEPT !.ratio = f32_to_json(node.ratio),
                      !.first = node_to_json(node.first),
                      !.second = node_to_json(node.second)]

\* to_string_pretty writing the tree alone: not the code.
to_json_tree_only(l) ==
    [root |-> IF l.root.some THEN Some(node_to_json(l.root.val)) ELSE None,
     floating |-> <<>>]

\* serde_json::to_string_pretty(layout)
to_json(l) ==
    [root |-> IF l.root.some THEN Some(node_to_json(l.root.val)) ELSE None,
     floating |-> l.floating]

\* Deserializing a Split fails where its ratio is null.
RECURSIVE json_is_node(_)
json_is_node(j) ==
    IF j.kind = "Panel" THEN TRUE
    ELSE /\ j.ratio.type = "number"
         /\ json_is_node(j.first)
         /\ json_is_node(j.second)

\* The DockNode a JSON value deserializes to.
RECURSIVE json_to_node(_)
json_to_node(j) ==
    IF j.kind = "Panel" THEN j
    ELSE [j EXCEPT !.ratio = j.ratio.value,
                   !.first = json_to_node(j.first),
                   !.second = json_to_node(j.second)]

\* serde_json::from_str(&json): Ok(layout) or Err.
from_json(j) ==
    IF j.root.some => json_is_node(j.root.val)
    THEN [ok |-> TRUE,
          val |-> [root |-> IF j.root.some
                            THEN Some(json_to_node(j.root.val)) ELSE None,
                   floating |-> j.floating]]
    ELSE [ok |-> FALSE]

\* save_layout: the file it leaves (the write succeeds).
save_layout(l) == [exists |-> TRUE, json |-> to_json(l)]

\* load_layout: Ok(layout) or Err, of a file that exists.
load_layout(f) == from_json(f.json)

\* auto_load_layout taking the root of the loaded layout and keeping the
\* floating windows it has: not the code.
auto_load_layout_root_only(l, f, was_loaded) ==
    IF was_loaded THEN [layout |-> l, loaded |-> TRUE]
    ELSE IF f.exists /\ load_layout(f).ok
    THEN [layout |-> [l EXCEPT !.root = load_layout(f).val.root],
          loaded |-> TRUE]
    ELSE [layout |-> l, loaded |-> TRUE]

\* auto_load_layout without the Local<bool>: not the code.
auto_load_layout_every_run(l, f, was_loaded) ==
    IF f.exists /\ load_layout(f).ok
    THEN [layout |-> load_layout(f).val, loaded |-> TRUE]
    ELSE [layout |-> l, loaded |-> TRUE]

\* auto_load_layout: [layout, loaded].
auto_load_layout(l, f, was_loaded) ==
    IF was_loaded THEN [layout |-> l, loaded |-> TRUE]
    ELSE IF f.exists /\ load_layout(f).ok
    THEN [layout |-> load_layout(f).val, loaded |-> TRUE]
    ELSE [layout |-> l, loaded |-> TRUE]

AutoLoadLayout ==
    /\ call = NoCall
    /\ "auto_load_layout" \notin ran
    /\ LET r == auto_load_layout(layout, file, loaded) IN
        /\ layout' = r.layout
        /\ loaded' = r.loaded
    /\ ran' = ran \cup {"auto_load_layout"}
    /\ UNCHANGED <<COUNTER, call, drag, divider, input, file>>

\* auto_save_layout: chord is whether Ctrl and Shift are held and S has just
\* been pressed in this frame.
AutoSaveLayout ==
    /\ call = NoCall
    /\ "auto_save_layout" \notin ran
    /\ \E chord \in BOOLEAN :
        file' = IF chord THEN save_layout(layout) ELSE file
    /\ ran' = ran \cup {"auto_save_layout"}
    /\ UNCHANGED <<layout, COUNTER, call, drag, divider, input, loaded>>

\* The editor exits and is started again: a new process, whose COUNTER
\* starts at 0 and whose init_resource builds the default layout; the file
\* stays.
Restart ==
    /\ call = NoCall
    /\ file.exists
    /\ layout' = DefaultDockingLayout(0)
    /\ COUNTER' = 5
    /\ drag' = DockDragState_default
    /\ divider' = DividerDragState_default
    /\ input' = NoInput
    /\ ran' = {}
    /\ loaded' = FALSE
    /\ UNCHANGED <<call, file>>

\* The host calls save_layout with the DockingLayout resource.
SaveLayoutCall ==
    /\ call = NoCall
    /\ file' = save_layout(layout)
    /\ Called("save_layout", <<>>, None)
    /\ UNCHANGED <<layout, COUNTER, drag, divider, input, ran, loaded>>

\* The host calls load_layout and, as auto_load_layout does, assigns an Ok
\* result to the DockingLayout resource.
LoadLayoutCall ==
    /\ call = NoCall
    /\ file.exists
    /\ LET r == load_layout(file) IN
        /\ layout' = IF r.ok THEN r.val ELSE layout
        /\ Called("load_layout", <<>>, IF r.ok THEN Some(r.val) ELSE None)
    /\ UNCHANGED <<COUNTER, drag, divider, input, ran, file, loaded>>

\* The systems of persistence.
PersistenceSystems == {"auto_load_layout", "auto_save_layout"}

----------------------------------------------------------------------------
(* Specifications *)

\* add_panel_to_container and remove_panel calls from the default layout.
NextTabs ==
    \/ AddPanelCall({"Assets", "Viewport"}, ContainerIds(layout) \cup {MaxId})
    \/ RemovePanelCall(PanelIds)
    \/ Return

SpecTabs == Init /\ [][NextTabs]_vars

\* update_split_ratio called with every kind of f32, on the splits of the
\* default layout and of the layouts a split_container call makes of it.
NextRatio ==
    \/ UpdateSplitRatioCall(DockIds, Ratios)
    \/ SplitContainerCall(ContainerIds(layout), Directions, {"Assets"}, {50})
    \/ Return

SpecRatio == Init /\ [][NextRatio]_vars

\* The operations that make or set a ratio, split_container with every kind
\* of f32 and update_split_ratio with every kind but NaN, among removals.
NextSplitRatio ==
    \/ SplitContainerCall(ContainerIds(layout), Directions, {"Assets"}, Ratios)
    \/ UpdateSplitRatioCall(SplitIds(layout), Ratios \ {NaN})
    \/ RemovePanelCall(PanelIds)
    \/ Return

SpecSplitRatio == Init /\ [][NextSplitRatio]_vars

\* remove_panel on layouts with tabbed, duplicated, split-off and undocked
\* panels.
NextRemove ==
    \/ RemovePanelCall(PanelIds)
    \/ AddPanelCall({"Assets", "Viewport"}, ContainerIds(layout))
    \/ SplitContainerCall(ContainerIds(layout), Directions, {"Assets"}, {50})
    \/ UndockPanelCall({"Inspector", "Hierarchy"})
    \/ Return

SpecRemove == Init /\ [][NextRemove]_vars

\* The operations called with DockIds and PanelIds that are in the layout,
\* that are in it on a node of the other variant, and that are not in it.
NextStale ==
    \/ AddPanelCall({"Assets"}, DockIds)
    \/ SplitContainerCall(DockIds, {"Horizontal"}, {"Assets"}, {50})
    \/ UpdateSplitRatioCall(DockIds, {-500, 50})
    \/ RemovePanelCall({"Hierarchy", "Assets"})
    \/ UndockPanelCall({"Inspector", "Assets"})
    \/ Return

SpecStale == Init /\ [][NextStale]_vars

\* Drags of the Viewport panel by its header or tab, frame after frame.
NextDrag ==
    \/ NewFrame(DragSystems, DragPresses, DragCursors,
                DragHeaders, DragOvers, {})
    \/ HandlePanelDragStart
    \/ ActivateDragOnThreshold
    \/ HandlePanelDragOver
    \/ UpdateDropZoneFromCursor
    \/ HandlePanelDrop

SpecDrag == Init /\ [][NextDrag]_vars

\* split_container, undock_panel and dock_floating_window calls and panel
\* drops in one session, with no load.  The host's calls are made after the
\* drag-to-dock systems of the frame.
IdsCursors == {<<35, 50>>}

IdsOvers == {[id |-> id, pos |-> <<20, 50>>] : id \in ContainerIds(layout)}

HostCallsIds ==
    /\ ran = DragSystems
    /\ \/ SplitContainerCall(ContainerIds(layout), {"Vertical"}, {"Assets"}, {50})
       \/ UndockPanelCall({"Inspector"})
       \/ DockFloatingWindowCall(FloatingIds(layout) \cup ContainerIds(layout),
                                 {"Center", "Right"})

NextIds ==
    \/ HostCallsIds
    \/ Return
    \/ NewFrame(DragSystems, DragPresses, IdsCursors, DragHeaders, IdsOvers, {})
    \/ HandlePanelDragStart
    \/ ActivateDragOnThreshold
    \/ HandlePanelDragOver
    \/ UpdateDropZoneFromCursor
    \/ HandlePanelDrop

SpecIds == Init /\ [][NextIds]_vars

\* Drags of the Viewport panel over its first container, the pointer at
\* positions on, beside and between the thresholds of the drop zones.
ZoneCoordinates == {29, 30, 50, 70, 71}

ZoneOvers ==
    {[id |-> 0, pos |-> <<x, y>>] : x \in ZoneCoordinates, y \in ZoneCoordinates}
    \cup {[id |-> 0, pos |-> pos] : pos \in {<<0, 0>>, <<100, 100>>, <<101, 50>>}}

ZoneCursors == {<<29, 71>>, <<30, 29>>, <<70, 71>>}

NextZone ==
    \/ NewFrame(DragSystems, DragPresses, ZoneCursors,
                DragHeaders, ZoneOvers, {})
    \/ HandlePanelDragStart
    \/ ActivateDragOnThreshold
    \/ HandlePanelDragOver
    \/ UpdateDropZoneFromCursor
    \/ HandlePanelDrop

SpecZone == Init /\ [][NextZone]_vars

\* Sessions that save the layout, and that load the one an earlier session
\* saved.
NextLoad ==
    \/ NewFrame(PersistenceSystems, {}, {}, {}, {}, {})
    \/ AutoLoadLayout
    \/ AutoSaveLayout
    \/ Restart
    \/ SplitContainerCall(ContainerIds(layout), {"Horizontal"}, {"Assets"},
                          {50, NaN})
    \/ UndockPanelCall({"Inspector"})
    \/ Return

SpecLoad == Init /\ [][NextLoad]_vars

\* Panels undocked into floating windows and the windows docked again, with
\* window and target ids that are in the layout and that are not.
NextDock ==
    \/ UndockPanelCall({"Inspector", "Hierarchy"})
    \/ DockFloatingWindowCall(DockIds, {"Center", "Right"})
    \/ AddPanelCall({"Assets"}, {0})
    \/ Return

SpecDock == Init /\ [][NextDock]_vars

\* Drags of the Viewport panel in a session whose host saves the layout and
\* loads the saved one again, after the drag-to-dock systems of a frame.
HostCallsReload ==
    /\ ran = DragSystems
    /\ \/ SaveLayoutCall
       \/ LoadLayoutCall

NextReload ==
    \/ HostCallsReload
    \/ Return
    \/ NewFrame(DragSystems, DragPresses, IdsCursors, DragHeaders, IdsOvers, {})
    \/ HandlePanelDragStart
    \/ ActivateDragOnThreshold
    \/ HandlePanelDragOver
    \/ UpdateDropZoneFromCursor
    \/ HandlePanelDrop

SpecReload == Init /\ [][NextReload]_vars

\* Layouts with split-off, tabbed and undocked panels and with every kind of
\* ratio, saved and loaded by the host.
NextRoundTrip ==
    \/ SplitContainerCall(ContainerIds(layout), {"Vertical"}, {"Assets"},
                          {NaN, 50, 500})
    \/ UpdateSplitRatioCall(SplitIds(layout), {NaN, -500})
    \/ AddPanelCall({"Assets"}, {1})
    \/ UndockPanelCall({"Inspector"})
    \/ SaveLayoutCall
    \/ LoadLayoutCall
    \/ Return

SpecRoundTrip == Init /\ [][NextRoundTrip]_vars

\* dock_floating_window on layouts a host has built from the public fields
\* of DockingLayout: one container with one or two panels and one floating
\* window holding one or two panels, the two DockIds minted by DockId::new.
RedockLayouts ==
    {[root |-> Some(PanelNode(panels, active, 0)),
      floating |-> <<FloatingWindow(tabs, 0, <<10, 10>>, <<40, 30>>, 1)>>] :
        panels \in {<<"Viewport">>, <<"Viewport", "Assets">>},
        active \in {0, 1},
        tabs \in {<<"Hierarchy">>, <<"Hierarchy", "Inspector">>,
                  <<"Inspector", "Hierarchy">>}}

InitRedock ==
    /\ layout \in {l \in RedockLayouts :
                      l.root.val.active < Len(l.root.val.panels)}
    /\ COUNTER = 2
    /\ call = NoCall
    /\ drag = DockDragState_default
    /\ divider = DividerDragState_default
    /\ input = NoInput
    /\ ran = {}
    /\ file = NoFile
    /\ loaded = FALSE

NextRedock ==
    \/ DockFloatingWindowCall(DockIds, Zones)
    \/ UndockPanelCall({"Viewport", "Hierarchy"})
    \/ Return

SpecRedock == InitRedock /\ [][NextRedock]_vars

\* Drags of the Viewport panel dropped on every zone of its own container
\* and of the Hierarchy container, and the Inspector panel undocked and
\* docked again on every zone, the host's calls made after the drag-to-dock
\* systems of the frame.
ActionOvers ==
    {[id |-> id, pos |-> pos] :
        id \in {0, 1},
        pos \in {<<20, 50>>, <<80, 50>>, <<50, 20>>, <<50, 80>>, <<50, 50>>}}

HostCallsAction ==
    /\ ran = DragSystems
    /\ \/ UndockPanelCall({"Inspector"})
       \/ DockFloatingWindowCall(FloatingIds(layout) \cup {1}, Zones)

NextAction ==
    \/ HostCallsAction
    \/ Return
    \/ NewFrame(DragSystems, DragPresses, IdsCursors,
                DragHeaders, ActionOvers, {})
    \/ HandlePanelDragStart
    \/ ActivateDragOnThreshold
    \/ HandlePanelDragOver
    \/ UpdateDropZoneFromCursor
    \/ HandlePanelDrop

SpecAction == Init /\ [][NextAction]_vars

\* Sessions whose host calls the operations when the persistence systems of
\* the frame have run, the first frame's auto_load_layout among them: the
\* layout is saved with split-off and undocked panels and with a NaN ratio,
\* and a later session starts with that file.
HostCallsStartup ==
    /\ ran = PersistenceSystems
    /\ \/ SplitContainerCall(ContainerIds(layout), {"Horizontal"}, {"Assets"},
                             {50, NaN})
       \/ UndockPanelCall({"Inspector"})

NextStartup ==
    \/ NewFrame(PersistenceSystems, {}, {}, {}, {}, {})
    \/ AutoLoadLayout
    \/ AutoSaveLayout
    \/ Restart
    \/ HostCallsStartup
    \/ Return

SpecStartup == Init /\ [][NextStartup]_vars

\* Presses on the Viewport header and on the dividers, the pointer then
\* moved and the button released.  The systems that write the session
\* fields of the two controllers, and handle_divider_drag, run in every
\* frame; no drop target is recorded, so no drop changes the tree.
SessionSystems ==
    {"handle_panel_drag_start", "activate_drag_on_threshold",
     "handle_panel_drop"} \cup DividerSystems

SessionCursors == {<<35, 50>>, <<45, 2>>}

NextSessions ==
    \/ NewFrame(SessionSystems, DragPresses, SessionCursors, DragHeaders, {},
                Dividers(layout))
    \/ HandlePanelDragStart
    \/ ActivateDragOnThreshold
    \/ HandlePanelDrop
    \/ HandleDividerDragStart
    \/ HandleDividerDrag
    \/ HandleDividerDragEnd

SpecSessions == Init /\ [][NextSessions]_vars

\* Drags and clicks of the Viewport panel where a press and a release of the
\* button may arrive in one frame.
TapCursors == {<<35, 50>>}

TapOvers == {[id |-> 1, pos |-> <<20, 50>>]}

NextTap ==
    \/ NewFrameWithTaps(DragSystems, DragPresses, TapCursors, DragHeaders,
                        TapOvers, {})
    \/ HandlePanelDragStart
    \/ ActivateDragOnThreshold
    \/ HandlePanelDragOver
    \/ UpdateDropZoneFromCursor
    \/ HandlePanelDrop

SpecTap == Init /\ [][NextTap]_vars

\* Divider drags: presses on the dividers of the layout, the pointer then
\* moved back along the x axis by less than DRAG_THRESHOLD, to the far
\* corner of the window and back to where the button went down.  The host splits the Viewport
\* container with a ratio split_container stores as it is given, when the
\* divider systems of the frame have run.
ResizePresses == {<<70, 50>>}

ResizeCursors == {<<70, 50>>, <<66, 50>>, <<99, 99>>}

HostCallsResize ==
    /\ ran = DividerSystems
    /\ SplitContainerCall({0}, {"Vertical"}, {"Assets"}, {500, NaN})

NextResize ==
    \/ HostCallsResize
    \/ Return
    \/ NewFrame(DividerSystems, ResizePresses, ResizeCursors, {}, {},
                Dividers(layout))
    \/ HandleDividerDragStart
    \/ HandleDividerDrag
    \/ HandleDividerDragEnd

SpecResize == Init /\ [][NextResize]_vars

\* Divider drags and clicks where a press and a release of the button may
\* arrive in one frame.
TapResizeCursors == {<<66, 50>>}

NextResizeTap ==
    \/ NewFrameWithTaps(DividerSystems, ResizePresses, TapResizeCursors, {}, {},
                        Dividers(layout))
    \/ HandleDividerDragStart
    \/ HandleDividerDrag
    \/ HandleDividerDragEnd

SpecResizeTap == Init /\ [][NextResizeTap]_vars

\* Tabs clicked in containers the host has filled with add_panel_to_container
\* and emptied with remove_panel, the calls made when the frame's systems
\* have run.
HostCallsTabClicks ==
    /\ ran = TabSystems
    /\ \/ AddPanelCall({"Assets", "Viewport"}, {1})
       \/ RemovePanelCall(PanelIds)

NextTabClicks ==
    \/ HostCallsTabClicks
    \/ Return
    \/ NewFrame(TabSystems, DragPresses, {}, Headers(layout), {}, {})
    \/ HandleTabClicks

SpecTabClicks == Init /\ [][NextTabClicks]_vars

\* Every operation on the tree in one session: the host's calls of the
\* public operations, made between the user's drags when the systems of the
\* frame have run, clicks on the Viewport panel's tab and drags of the
\* Viewport panel onto the centre and the left edge of the Hierarchy
\* container.  update_drop_zone_from_cursor, which writes drop_zone only, is
\* left out: both zones are recorded without it.
EverySystems ==
    (DragSystems \ {"update_drop_zone_from_cursor"}) \cup TabSystems

EveryOvers == {[id |-> 1, pos |-> pos] : pos \in {<<50, 50>>, <<20, 50>>}}

HostCallsEvery ==
    /\ ran = EverySystems
    /\ ~input.pressed
    /\ ~drag.dragging.some
    /\ ~drag.potential_drag_panel.some
    /\ \/ AddPanelCall({"Assets"}, {1})
       \/ RemovePanelCall({"Assets"})
       \/ SplitContainerCall({1}, {"Vertical"}, {"Assets"}, {50})
       \/ UpdateSplitRatioCall({4}, {20})
       \/ UndockPanelCall({"Inspector"})
       \/ DockFloatingWindowCall(FloatingIds(layout) \cup {1}, {"Center", "Right"})

NextEvery ==
    \/ HostCallsEvery
    \/ Return
    \/ NewFrame(EverySystems, DragPresses, IdsCursors, DragHeaders,
                EveryOvers, {})
    \/ HandlePanelDragStart
    \/ ActivateDragOnThreshold
    \/ HandlePanelDragOver
    \/ HandlePanelDrop
    \/ HandleTabClicks

SpecEvery == Init /\ [][NextEvery]_vars

\* Divider drags in sessions whose host splits containers, saves the layout
\* and loads the saved one, in the session that saved it and in a later one,
\* the calls made when the divider systems of the frame have run.  The
\* dividers pressed are those of the Splits the host's calls have made.
ReloadCursors == {<<99, 99>>}

HostCallsResizeReload ==
    /\ ran = DividerSystems
    /\ \/ /\ Len(TreeNodes(layout)) < MaxNodes
          /\ SplitContainerCall({0, 1}, {"Vertical"}, {"Assets"}, {50})
       \/ RemovePanelCall({"Assets"})
       \/ SaveLayoutCall
       \/ LoadLayoutCall
       \/ Restart

NextResizeReload ==
    \/ HostCallsResizeReload
    \/ Return
    \/ NewFrame(DividerSystems, ResizePresses, ReloadCursors, {}, {},
                Dividers(layout) \ Dividers(DefaultDockingLayout(0)))
    \/ HandleDividerDragStart
    \/ HandleDividerDrag
    \/ HandleDividerDragEnd

SpecResizeReload == Init /\ [][NextResizeReload]_vars

----------------------------------------------------------------------------
(* Properties *)

\* The Panel nodes of the tree.
Containers ==
    {TreeNodes(layout)[i] : i \in {j \in 1..Len(TreeNodes(layout)) :
                                      TreeNodes(layout)[j].kind = "Panel"}}

\* The Split nodes of the tree.
Splits ==
    {TreeNodes(layout)[i] : i \in {j \in 1..Len(TreeNodes(layout)) :
                                      TreeNodes(layout)[j].kind = "Split"}}

\* C1: after every add_panel_to_container and remove_panel call from the
\* default layout, every Panel container with a non-empty panels list has
\* active < panels.len().
C1_ActiveIndexIntegrity ==
    \A n \in Containers : n.panels # <<>> => n.active < Len(n.panels)

\* C1's case: remove_panel has just removed the last, active tab of a
\* container that keeps at least two others, so the index had to be clamped.
C1_Witness ==
    /\ call.op = "remove_panel"
    /\ call.ret.some
    /\ \E n \in Containers :
          /\ Len(n.panels) >= 2
          /\ n.active = Len(n.panels) - 1
          /\ \A i \in 1..Len(n.panels) : n.panels[i] # call.ret.val
          /\ \A m \in Containers : m.id # n.id => m.panels = <<>>


\* An f32 in [0.1, 0.9]; NaN is in no interval.
InRatioRange(x) == x # NaN /\ 10 <= x /\ x <= 90

\* C4: for every requested ratio r and every existing Split id,
\* update_split_ratio(id, r) stores min(max(r, 0.1), 0.9) in that Split, a
\* value of [0.1, 0.9]: 0.9 for r above 0.9, 0.1 for r below 0.1, r itself
\* for r inside the range.
C4_RatioClamp ==
    (call.op = "update_split_ratio" /\ call.args[1] \in SplitIds(layout)) =>
        LET r == call.args[2] IN
        \A s \in Splits : s.id = call.args[1] =>
            /\ InRatioRange(s.ratio)
            /\ (r # NaN /\ r > 90) => s.ratio = 90
            /\ (r # NaN /\ r < 10) => s.ratio = 10
            /\ InRatioRange(r) => s.ratio = r

\* C5: in every state reachable from the default layout by public
\* operations, split_container with an arbitrary ratio among them, every
\* Split node's ratio lies in [0.1, 0.9].
C5_RatiosInRange == \A s \in Splits : InRatioRange(s.ratio)

\* A subtree without what its containers hold: shape, variants, DockIds,
\* directions and ratios.
RECURSIVE Skeleton(_)
Skeleton(node) ==
    IF node.kind = "Panel" THEN [kind |-> "Panel", id |-> node.id]
    ELSE [kind |-> "Split", id |-> node.id, direction |-> node.direction,
          ratio |-> node.ratio, first |-> Skeleton(node.first),
          second |-> Skeleton(node.second)]

\* The positions (in pre-order) at which two trees of one skeleton differ.
ChangedNodes(before, after) ==
    {i \in 1..Len(TreeNodes(before)) : TreeNodes(before)[i] # TreeNodes(after)[i]
                                       /\ TreeNodes(before)[i].kind = "Panel"}

\* C6: remove_panel never prunes.  A remove_panel call leaves the tree's
\* shape, every DockId, every Split's direction and ratio and the floating
\* list as they were; at most one container changes (its panels and active
\* index), it is one that held the panel, and a container emptied by the
\* call stays in its place as an empty Panel.
C6_RemoveNeverPrunes ==
    [][call'.op = "remove_panel" =>
        /\ layout'.floating = layout.floating
        /\ layout'.root.some = layout.root.some
        /\ layout.root.some =>
              /\ Skeleton(layout'.root.val) = Skeleton(layout.root.val)
              /\ Cardinality(ChangedNodes(layout, layout')) <= 1
              /\ \A i \in ChangedNodes(layout, layout') :
                    \E k \in 1..Len(TreeNodes(layout)[i].panels) :
                        TreeNodes(layout)[i].panels[k] = call'.args[1]
              /\ call'.ret.some => Cardinality(ChangedNodes(layout, layout')) = 1
      ]_vars

\* C6's case: split_container(C, Horizontal, "Assets", 0.5) on the container
\* holding "Viewport", then remove_panel("Assets"): the Split is still
\* there, its second child an empty Panel, its first child holding "Viewport".
C6_Witness ==
    /\ call.op = "remove_panel"
    /\ call.ret = Some("Assets")
    /\ \E s \in Splits :
          /\ s.direction = "Horizontal" /\ s.ratio = 50
          /\ s.second.kind = "Panel" /\ s.second.panels = <<>>
          /\ s.first.kind = "Panel" /\ s.first.panels = <<"Viewport">>

\* The panels held by the containers of the tree.
DockedPanels(l) ==
    IF l.root.some
    THEN {all_panels(l.root.val)[i] : i \in 1..Len(all_panels(l.root.val))}
    ELSE {}

\* C10: add_panel_to_container and split_container given a DockId that is
\* not a Panel container of the tree, update_split_ratio given one that is
\* not a Split of the tree, remove_panel and undock_panel given a PanelId
\* no container holds: the DockingLayout is left as it was, remove_panel
\* returns None and undock_panel makes no floating window.
C10_StaleReferenceNoOp ==
    [][/\ (call'.op = "add_panel_to_container"
           /\ call'.args[2] \notin ContainerIds(layout)) => layout' = layout
       /\ (call'.op = "split_container"
           /\ call'.args[1] \notin ContainerIds(layout)) => layout' = layout
       /\ (call'.op = "update_split_ratio"
           /\ call'.args[1] \notin SplitIds(layout)) => layout' = layout
       /\ (call'.op = "remove_panel"
           /\ call'.args[1] \notin DockedPanels(layout)) =>
              (layout' = layout /\ call'.ret = None)
       /\ (call'.op = "undock_panel"
           /\ call'.args[1] \notin DockedPanels(layout)) => layout' = layout
      ]_vars

\* C10's case: update_split_ratio has been called with the DockId of a
\* Panel container (a node of the wrong variant), with a window floating.
C10_Witness ==
    /\ call.op = "update_split_ratio"
    /\ call.args[1] \in ContainerIds(layout)
    /\ layout.floating # <<>>

\* The drag session's states: Idle, PotentialDrag, ActiveDrag.
Idle == ~drag.dragging.some /\ ~drag.potential_drag_panel.some
PotentialDrag == ~drag.dragging.some /\ drag.potential_drag_panel.some
ActiveDrag == drag.dragging.some

\* The pointer at a is more than 5 pixels from b.
MoreThan5px(a, b) ==
    (a[1] - b[1]) * (a[1] - b[1]) + (a[2] - b[2]) * (a[2] - b[2]) > 25

DropOnContainer ==
    /\ "handle_panel_drop" \notin ran
    /\ "handle_panel_drop" \in ran'
    /\ input.just_released
    /\ drag.dragging.some
    /\ drag.drop_target.some
    /\ drag.drop_target.val \in ContainerIds(layout)
    /\ drag.drop_zone.some

DropInPlace ==
    /\ drag.drop_zone = Some("Center")
    /\ \E n \in Containers :
        /\ n.id = drag.drop_target.val
        /\ n.panels # <<>>
        /\ n.panels[Len(n.panels)] = drag.dragging.val
        /\ n.active = Len(n.panels) - 1

C2_IdsDistinct ==
    LET ids == AllIds(layout) IN
    \A i, j \in 1..Len(ids) : i # j => ids[i] # ids[j]

\* C2's case: a panel drop on an edge zone has split a container, minting
\* the ids of a new container and a new Split.
C2_Witness ==
    /\ input.just_released
    /\ "handle_panel_drop" \in ran
    /\ COUNTER = 8
    /\ Cardinality(SplitIds(layout)) = 3
    /\ Cardinality(ContainerIds(layout)) = 4

\* The DockIds of the layout's tree nodes and floating windows.
IdSet(l) == ContainerIds(l) \cup SplitIds(l) \cup FloatingIds(l)

\* C3: once auto_load_layout has run in a session, every DockId that a step
\* mints differs from every DockId in the layout, the loaded ones included.
C3_LoadedIdsNeverMintedAgain ==
    [][(loaded /\ COUNTER' > COUNTER) =>
          \A id \in COUNTER..(COUNTER' - 1) : id \notin IdSet(layout)]_vars

\* The zone C7 gives a normalized position, in hundredths.
classify(x, y) ==
    CASE x < 30 -> "Left"
      [] x >= 30 /\ x > 70 -> "Right"
      [] x >= 30 /\ x <= 70 /\ y < 30 -> "Top"
      [] x >= 30 /\ x <= 70 /\ y >= 30 /\ y > 70 -> "Bottom"
      [] x >= 30 /\ x <= 70 /\ y >= 30 /\ y <= 70 -> "Center"

\* C7: handle_panel_drag_over gives the position of the pointer within the
\* container under it, and update_drop_zone_from_cursor the position of the
\* pointer within the window, the zone of the strict priority Left, Right,
\* Top, Bottom, Center: a position on 0.3 or 0.7 is on the interior side and
\* the horizontal zones have the corners.
C7_DropZoneClassification ==
    [][/\ ("handle_panel_drag_over" \notin ran
           /\ "handle_panel_drag_over" \in ran'
           /\ drag.dragging.some /\ input.over.some
           /\ in_bounds(input.over.val.pos)) =>
              drag'.drop_zone = Some(classify(input.over.val.pos[1],
                                              input.over.val.pos[2]))
       /\ ("update_drop_zone_from_cursor" \notin ran
           /\ "update_drop_zone_from_cursor" \in ran'
           /\ drag.dragging.some /\ drag.drop_target.some
           /\ drag.drop_target.val \in ContainerIds(layout)
           /\ input.cursor.some) =>
              drag'.drop_zone = Some(classify(input.cursor.val[1],
                                              input.cursor.val[2]))
      ]_vars

\* C7's case: handle_panel_drag_over has classified the position (0.3, 0.3),
\* on two thresholds, as Center.
C7_Witness ==
    /\ "handle_panel_drag_over" \in ran
    /\ "update_drop_zone_from_cursor" \notin ran
    /\ input.over = Some([id |-> 0, pos |-> <<30, 30>>])
    /\ drag.drop_zone = Some("Center")

\* C11: dock_floating_window given a window id that names no floating
\* window, or a target that names no Panel container of the tree, leaves the
\* DockingLayout as it was.
C11_DockStaleReferenceNoOp ==
    [][(call'.op = "dock_floating_window"
        /\ (call'.args[1] \notin FloatingIds(layout)
            \/ call'.args[2] \notin ContainerIds(layout))) =>
          layout' = layout]_vars

\* handle_panel_drop takes its step with a drag in progress, a drop zone and
\* a drop target that is no Panel container of the tree.
DropOnStaleTarget ==
    /\ "handle_panel_drop" \notin ran
    /\ "handle_panel_drop" \in ran'
    /\ input.just_released
    /\ drag.dragging.some
    /\ drag.drop_target.some
    /\ drag.drop_target.val \notin ContainerIds(layout)
    /\ drag.drop_zone.some

\* C12: a release whose recorded drop target is no Panel container of the
\* tree leaves the DockingLayout as it was, the dragged panel still in its
\* container.
C12_StaleDropNoOp ==
    [][DropOnStaleTarget => layout' = layout]_vars

RatiosAreNumbers == \A n \in Splits : n.ratio # NaN

C14_PanelIdsUnique ==
    layout.root.some =>
        LET panels == all_panels(layout.root.val) IN
        \A i, j \in 1..Len(panels) : i # j => panels[i] # panels[j]

\* C15: split_container(C, direction, p, ratio) on a Panel container C of
\* the tree puts in C's place a Split of that direction and ratio whose first
\* child is a Panel with C's panels and active index and whose second child
\* is a Panel with panels [p] and active 0; every node outside that place and
\* the floating list are as before.
C15_SplitInPlace ==
    [][(call'.op = "split_container"
        /\ call'.args[1] \in ContainerIds(layout)) =>
          LET path == find_container_by_id_mut(layout.root.val, call'.args[1]).val
              old == NodeAt(layout.root.val, path)
              new == NodeAt(layout'.root.val, path)
          IN  /\ new.kind = "Split"
              /\ new.direction = call'.args[2]
              /\ new.ratio = call'.args[4]
              /\ new.first.kind = "Panel"
              /\ new.first.panels = old.panels
              /\ new.first.active = old.active
              /\ new.second.kind = "Panel"
              /\ new.second.panels = <<call'.args[3]>>
              /\ new.second.active = 0
              /\ ReplaceAt(layout'.root.val, path, old) = layout.root.val
              /\ layout'.floating = layout.floating
      ]_vars

\* C15's case: split_container(C, Vertical, "Assets", 0.9) has been called on
\* the container of "Inspector".
C15_Witness ==
    /\ call.op = "split_container"
    /\ call.args = <<2, "Vertical", "Assets", 90>>
    /\ \E n \in Splits :
        /\ n.direction = "Vertical" /\ n.ratio = 90
        /\ n.first = PanelNode(<<"Inspector">>, 0, 2)
        /\ n.second.kind = "Panel" /\ n.second.panels = <<"Assets">>

\* C16: after split_container(C, ..) on a Panel container C of the tree no
\* node carries DockId C, and the new Split and its two children carry
\* DockIds that DockId::new had not returned before the call.
C16_SplitRekeys ==
    [][(call'.op = "split_container"
        /\ call'.args[1] \in ContainerIds(layout)) =>
          LET path == find_container_by_id_mut(layout.root.val, call'.args[1]).val
              new == NodeAt(layout'.root.val, path)
          IN  /\ call'.args[1] \notin IdSet(layout')
              /\ new.id >= COUNTER
              /\ new.first.id >= COUNTER
              /\ new.second.id >= COUNTER
      ]_vars

\* C17: add_panel_to_container(p, C) on a Panel container C of the tree
\* appends p to C's panels and sets C's active to the new last index; every
\* other node and the floating list are as before.
C17_AddAppendsAndActivates ==
    [][(call'.op = "add_panel_to_container"
        /\ call'.args[2] \in ContainerIds(layout)) =>
          LET path == find_container_by_id_mut(layout.root.val, call'.args[2]).val
              old == NodeAt(layout.root.val, path)
              new == NodeAt(layout'.root.val, path)
          IN  /\ new = [old EXCEPT !.panels = old.panels \o <<call'.args[1]>>,
                                   !.active = Len(old.panels)]
              /\ ReplaceAt(layout'.root.val, path, old) = layout.root.val
              /\ layout'.floating = layout.floating
      ]_vars

\* C17's case: a panel has been added to a container that held two panels
\* with the first one active.
C17_Witness ==
    /\ call.op = "add_panel_to_container"
    /\ \E n \in Containers :
        /\ n.id = call.args[2]
        /\ Len(n.panels) = 3
        /\ n.active = 2

\* The sequence s without its k-th element.
Without(s, k) == SubSeq(s, 1, k - 1) \o SubSeq(s, k + 1, Len(s))

\* The index of the first occurrence of x in s.
FirstIndex(s, x) ==
    CHOOSE k \in 1..Len(s) : s[k] = x /\ \A j \in 1..(k - 1) : s[j] # x

C19_UndockIsRemoveThenFloat ==
    [][(call'.op = "undock_panel"
        /\ call'.args[1] \in DockedPanels(layout)) =>
          /\ layout'.root = remove_panel(layout, call'.args[1]).layout.root
          /\ layout'.floating =
                Append(layout.floating,
                       FloatingWindow(<<call'.args[1]>>, 0, call'.args[2],
                                      call'.args[3], COUNTER))
          /\ COUNTER \notin IdSet(layout)
          /\ COUNTER' = COUNTER + 1
      ]_vars

\* C19's case: a second panel has been undocked, a window floating already.
C19_Witness ==
    /\ call.op = "undock_panel"
    /\ Len(layout.floating) = 2
    /\ layout.floating[2].panels = <<call.args[1]>>

\* The index in the floating list of the first window with DockId w.
WindowIndex(l, w) ==
    CHOOSE k \in 1..Len(l.floating) :
        l.floating[k].id = w /\ \A j \in 1..(k - 1) : l.floating[j].id # w

NewContainers(l, c) ==
    LET nodes == TreeNodes(l)
        made == {i \in 1..Len(nodes) : nodes[i].kind = "Panel" /\ nodes[i].id >= c}
        nth[k \in 1..Cardinality(made)] ==
            CHOOSE i \in made :
                Cardinality({j \in made : nodes[j].id < nodes[i].id}) = k - 1
    IN  [k \in 1..Cardinality(made) |-> nodes[nth[k]]]

\* C21: dock_floating_window(w, T, zone) with zone Left, Right, Top or
\* Bottom, w a floating window holding p1..pn and T a Panel container of the
\* tree: w leaves the floating list; n splits are made (three DockIds each),
\* and the containers they make are, in the order they are made, Panel
\* containers holding p1 alone, .., pn alone; every container the tree had,
\* T among them, is in the tree with the panels and active index it had.
C21_DockEdgeSplitsPerPanel ==
    [][(call'.op = "dock_floating_window"
        /\ call'.args[1] \in FloatingIds(layout)
        /\ call'.args[2] \in ContainerIds(layout)
        /\ call'.args[3] # "Center") =>
          LET k == WindowIndex(layout, call'.args[1])
              window == layout.floating[k]
              n == Len(window.panels)
              made == NewContainers(layout', COUNTER)
          IN  /\ layout'.floating = Without(layout.floating, k)
              /\ COUNTER' = COUNTER + 3 * n
              /\ Len(made) = n
              /\ \A i \in 1..n :
                    /\ made[i].panels = <<window.panels[i]>>
                    /\ made[i].active = 0
              /\ \A i \in 1..Len(TreeNodes(layout)) :
                    TreeNodes(layout)[i].kind = "Panel" =>
                        \E j \in 1..Len(TreeNodes(layout')) :
                            TreeNodes(layout')[j] = TreeNodes(layout)[i]
              /\ Cardinality(ContainerIds(layout')) =
                    Cardinality(ContainerIds(layout)) + n
      ]_vars

\* C21's case: a window holding "Inspector" and "Hierarchy" has been docked on
\* an edge of a container holding two panels, which has been split twice.
C21_Witness ==
    /\ call.op = "dock_floating_window"
    /\ call.args[3] \in {"Left", "Right", "Top", "Bottom"}
    /\ layout.floating = <<>>
    /\ COUNTER = 8
    /\ \E s \in Splits :
        /\ s.second = PanelNode(<<"Inspector">>, 0, 3)
        /\ s.first.kind = "Split"
        /\ s.first.first = PanelNode(<<"Viewport", "Assets">>, 1, 0)
        /\ s.first.second = PanelNode(<<"Hierarchy">>, 0, 6)

\* The tree action C22 gives a zone: [layout, counter].
ZoneAction(l, c, p, t, zone) ==
    IF zone = "Center"
    THEN [layout |-> add_panel_to_container(l, p, t), counter |-> c]
    ELSE split_container(l, c, t,
                         IF zone \in {"Left", "Right"} THEN "Horizontal"
                         ELSE "Vertical",
                         p, 50)

\* The zone's action for each panel of a window in turn.
RECURSIVE ZoneActions(_, _, _, _, _)
ZoneActions(l, c, panels, t, zone) ==
    IF panels = <<>> THEN [layout |-> l, counter |-> c]
    ELSE LET r == ZoneAction(l, c, Head(panels), t, zone) IN
         ZoneActions(r.layout, r.counter, Tail(panels), t, zone)

\* handle_panel_drop takes its step with a drag in progress, a drop target
\* and a drop zone.
DropStep ==
    /\ "handle_panel_drop" \notin ran
    /\ "handle_panel_drop" \in ran'
    /\ input.just_released
    /\ drag.dragging.some
    /\ drag.drop_target.some
    /\ drag.drop_zone.some

\* Panel p is alone in the second child of a Split of the zone's direction
\* and ratio 0.5 that stands where container t stood in tree before, with t
\* as its first child.
InSecondChild(before, after, p, t, zone) ==
    LET path == find_container_by_id_mut(before, t).val
        new == NodeAt(after, path)
    IN  /\ new.kind = "Split"
        /\ new.direction = IF zone \in {"Left", "Right"} THEN "Horizontal"
                           ELSE "Vertical"
        /\ new.ratio = 50
        /\ new.first = NodeAt(before, path)
        /\ new.second.kind = "Panel"
        /\ new.second.panels = <<p>>

FirstLoadStep ==
    /\ "auto_load_layout" \notin ran
    /\ "auto_load_layout" \in ran'
    /\ ~loaded

\* C23: the first run of auto_load_layout, at startup, completes in every
\* case; with no layout file, or one that does not deserialize, the
\* DockingLayout is left as it was, the default layout with no floating
\* window; with a file that loads, root and floating list are those of the
\* loaded layout.
C23_LoadOrDefault ==
    [][FirstLoadStep =>
          /\ loaded'
          /\ (~file.exists \/ ~load_layout(file).ok) =>
                /\ layout' = layout
                /\ layout' = DefaultDockingLayout(0)
          /\ (file.exists /\ load_layout(file).ok) =>
                /\ layout'.root = load_layout(file).val.root
                /\ layout'.floating = load_layout(file).val.floating
      ]_vars

\* C23's case: a session has started with the file an earlier session saved
\* with a window floating, and auto_load_layout has loaded it.
C23_Witness ==
    /\ "auto_load_layout" \in ran
    /\ loaded
    /\ COUNTER = 5
    /\ file.exists
    /\ load_layout(file).ok
    /\ layout.floating # <<>>
    /\ layout = load_layout(file).val

\* auto_load_layout takes its step when it has run before in the session.
LaterLoadStep ==
    /\ "auto_load_layout" \notin ran
    /\ "auto_load_layout" \in ran'
    /\ loaded

\* C24: a run of auto_load_layout that is not the first of the session
\* leaves the DockingLayout as it is, whatever the file holds and whether
\* the first run loaded a layout or not; the flag stays set.
C24_LoadOnce ==
    [][LaterLoadStep => (layout' = layout /\ loaded')]_vars

\* C24's case: auto_load_layout has run, first of the systems of a frame that
\* is not the session's first, with a file that loads and holds a layout
\* other than the current one.
C24_Witness ==
    /\ ran = {"auto_load_layout"}
    /\ loaded
    /\ call = NoCall
    /\ file.exists
    /\ load_layout(file).ok
    /\ load_layout(file).val # layout

\* A panel drag session is active: a potential drag or a drag is recorded.
PanelSession == drag.potential_drag_panel.some \/ drag.dragging.some

\* A divider drag session is active.
DividerSession == divider.dragging.some

\* The panel a DockDragState records.
SessionPanel(d) == IF d.dragging.some THEN d.dragging ELSE d.potential_drag_panel

SessionCleared ==
    /\ drag.dragging = None
    /\ drag.source_container = None
    /\ drag.drop_target = None
    /\ drag.drop_zone = None
    /\ drag.potential_drag_panel = None
    /\ drag.potential_drag_container = None
    /\ drag.drag_start_position = None

\* C26: when every system of a frame in which the left button was released
\* has run, dragging, source_container, drop_target, drop_zone,
\* potential_drag_panel, potential_drag_container and drag_start_position
\* are all None, whether the release performed a drop or not.
C26_ReleaseClearsSession ==
    (input.just_released /\ ran = DragSystems) => SessionCleared

\* C27: a step of the drag-to-dock systems changes the DockingLayout, or
\* mints a DockId, only if it is handle_panel_drop's in a frame where the
\* button was released, with the session in ActiveDrag and a drop target and
\* a drop zone recorded; in PotentialDrag, in ActiveDrag with no release, and
\* on a release with no target the layout is left as it was.
C27_MutatesOnlyOnDrop ==
    [][(layout' # layout \/ COUNTER' # COUNTER) =>
          /\ "handle_panel_drop" \notin ran
          /\ "handle_panel_drop" \in ran'
          /\ input.just_released
          /\ ActiveDrag
          /\ drag.drop_target.some
          /\ drag.drop_zone.some
      ]_vars

\* C27's case: every system has run in a frame with the button held, the
\* session in ActiveDrag with a drop target and a drop zone recorded, and the
\* layout is the default one still.
C27_Witness ==
    /\ ran = DragSystems
    /\ input.pressed
    /\ ~input.just_released
    /\ ActiveDrag
    /\ drag.drop_target.some
    /\ drag.drop_zone.some
    /\ layout = DefaultDockingLayout(0)

\* C28: the session leaves Idle only in handle_panel_drag_start's step of a
\* frame where the button went down with a header or tab under the pointer,
\* recording that panel and its container; when the systems of a frame where
\* the button went down with no header or tab under the pointer have run the
\* session is Idle; and ActiveDrag is entered from PotentialDrag with the
\* panel and the container recorded there.
C28_DragStartsAtHeaderPress ==
    [][/\ (Idle /\ ~Idle') =>
              /\ input.just_pressed
              /\ input.hovered.some
              /\ drag'.potential_drag_panel = Some(input.hovered.val.panel_id)
              /\ drag'.potential_drag_container =
                    Some(input.hovered.val.container_id)
       /\ (input'.just_pressed /\ ~input'.hovered.some /\ ran' = DragSystems) =>
              Idle'
       /\ (~ActiveDrag /\ ActiveDrag') =>
              /\ PotentialDrag
              /\ drag'.dragging = drag.potential_drag_panel
              /\ drag'.source_container = drag.potential_drag_container
      ]_vars

\* The pointer is over a container, within its bounds, in this frame.
OverContainer == input.over.some /\ in_bounds(input.over.val.pos)

\* C29: drop_target and drop_zone are set together and cleared together;
\* in ActiveDrag handle_panel_drag_over leaves them set exactly when the
\* pointer is over a container in this frame; and a release in a frame where
\* the pointer is over no container performs no drop, whatever target an
\* earlier frame recorded.
C29_TargetFollowsPointer ==
    [][/\ drag'.drop_target.some <=> drag'.drop_zone.some
       /\ ("handle_panel_drag_over" \notin ran
           /\ "handle_panel_drag_over" \in ran'
           /\ ActiveDrag) =>
              (drag'.drop_target.some <=> OverContainer)
       /\ ("handle_panel_drop" \notin ran
           /\ "handle_panel_drop" \in ran'
           /\ input.just_released
           /\ ActiveDrag
           /\ ~OverContainer) =>
              layout' = layout
      ]_vars

\* C30: when the systems of a frame have run with the session in ActiveDrag
\* and a drop target recorded, the target is the container under the pointer
\* and the recorded zone is the classification of the pointer's normalized
\* position within that container.
C30_ZoneOfTargetContainer ==
    (ran = DragSystems /\ ActiveDrag /\ drag.drop_target.some) =>
        /\ OverContainer
        /\ drag.drop_target = Some(input.over.val.id)
        /\ drag.drop_zone = Some(classify(input.over.val.pos[1],
                                          input.over.val.pos[2]))

\* The step of handle_divider_drag_start in a frame.
DividerPressStep ==
    "handle_divider_drag_start" \notin ran /\ "handle_divider_drag_start" \in ran'

\* The step of handle_divider_drag in a frame.
DividerDragStep ==
    "handle_divider_drag" \notin ran /\ "handle_divider_drag" \in ran'

\* The pointer's displacement since the press along the axis of a split
\* direction, over the window's extent along that axis.
ResizeDelta(dv, i, direction) ==
    IF direction = "Horizontal"
    THEN ((i.cursor.val[1] - dv.start_position[1]) * 100) \div WindowWidth
    ELSE ((i.cursor.val[2] - dv.start_position[2]) * 100) \div WindowHeight

\* The Split nodes of a layout with the id.
SplitsOf(l, id) ==
    {TreeNodes(l)[k] : k \in {j \in 1..Len(TreeNodes(l)) :
                                 /\ TreeNodes(l)[j].kind = "Split"
                                 /\ TreeNodes(l)[j].id = id}}

\* C31: a press on a divider captures the Split's ratio r0 and the pointer's
\* position; in every frame of the session with the button held and the
\* pointer in the window, handle_divider_drag leaves the dragged Split with
\* the ratio clamp(r0 + d / extent, 0.1, 0.9), d the pointer's displacement
\* since the press along the Split's axis, however small d is.
C31_DividerDragRatio ==
    [][/\ (DividerPressStep /\ input.just_pressed /\ input.pressed_divider.some
           /\ input.cursor.some) =>
              \A s \in SplitsOf(layout, input.pressed_divider.val.split_id) :
                  /\ divider'.dragging = Some(s.id)
                  /\ divider'.original_ratio = s.ratio
                  /\ divider'.start_position = input.cursor.val
       /\ (DividerDragStep /\ divider.dragging.some /\ input.pressed
           /\ input.cursor.some) =>
              /\ SplitsOf(layout', divider.dragging.val) # {}
              /\ \A s \in SplitsOf(layout', divider.dragging.val) :
                    s.ratio = clamp(f32_add(divider.original_ratio,
                                            ResizeDelta(divider, input,
                                                        s.direction)),
                                    10, 90)
      ]_vars

\* C31's case: the root Split's divider was pressed with the ratio at 0.7
\* and the pointer has moved 4 pixels along the axis, less than
\* DRAG_THRESHOLD, with the button held; handle_divider_drag has run and
\* the ratio is 0.66.
C31_Witness ==
    /\ "handle_divider_drag" \in ran
    /\ divider.dragging = Some(4)
    /\ divider.original_ratio = 70
    /\ input.pressed
    /\ input.cursor = Some(<<66, 50>>)
    /\ divider.start_position = <<70, 50>>
    /\ layout.root.val.ratio = 66

\* C32: when every divider system of a frame in which the left button was
\* released, and is up, has run, DividerDragState.dragging is None; and with
\* no divider session recorded handle_divider_drag changes no ratio, wherever
\* the pointer is.
C32_ReleaseEndsResize ==
    /\ []((input.just_released /\ ~input.pressed /\ ran = DividerSystems) =>
              divider.dragging = None)
    /\ [][(DividerDragStep /\ ~divider.dragging.some) => layout' = layout]_vars

\* The Panel nodes of a layout with the id.
ContainersOf(l, id) ==
    {TreeNodes(l)[k] : k \in {j \in 1..Len(TreeNodes(l)) :
                                 /\ TreeNodes(l)[j].kind = "Panel"
                                 /\ TreeNodes(l)[j].id = id}}

\* The panel a container's active index designates.
ActivePanel(n) == n.panels[n.active + 1]

\* C36: remove_panel(p) on a container with at least two panels, p not the
\* active panel, leaves the container's active index on the same PanelId.
C36_RemoveKeepsActivePanel ==
    [][(call = NoCall /\ call'.op = "remove_panel" /\ call'.ret.some) =>
          \A n \in Containers :
              LET p == call'.args[1]
                  after == ContainersOf(layout', n.id)
              IN  (/\ Len(n.panels) >= 2
                   /\ n.active < Len(n.panels)
                   /\ position(n.panels, p).some
                   /\ ActivePanel(n) # p
                   /\ find_container_mut(layout.root.val, p)
                         = find_container_by_id_mut(layout.root.val, n.id)) =>
                      \A m \in after : ActivePanel(m) = ActivePanel(n)
      ]_vars

\* The number of nodes a step adds to the tree.
Grown == Len(TreeNodes(layout')) - Len(TreeNodes(layout))

\* The DockId and the variant of every node of a layout's tree.
NodeKeys(l) ==
    LET nodes == TreeNodes(l) IN
    {<<nodes[k].id, nodes[k].kind>> : k \in 1..Len(nodes)}

\* Every node of the tree is in the tree after the step, under its DockId
\* and with its variant.
NodesKept == NodeKeys(layout) \subseteq NodeKeys(layout')

\* The host calls the operation in this step.
HostCallStep(op) == call = NoCall /\ call'.op = op

C35_ActiveIndexValid ==
    /\ \A n \in Containers :
          IF n.panels = <<>> THEN n.active = 0 ELSE n.active < Len(n.panels)
    /\ \A k \in 1..Len(layout.floating) :
          layout.floating[k].active < Len(layout.floating[k].panels)

\* C35's case: the Viewport panel was dropped among the Hierarchy
\* container's tabs, leaving its own container empty, the Assets panel was
\* added after it and the Inspector panel undocked; the Viewport tab, the
\* middle one, has just been clicked.
C35_Witness ==
    /\ "handle_tab_clicks" \in ran
    /\ input.just_pressed
    /\ input.hovered = Some([panel_id |-> "Viewport", container_id |-> 1])
    /\ layout.floating # <<>>
    /\ \E n \in Containers : n.id = 0 /\ n.panels = <<>>
    /\ \E n \in Containers :
          /\ n.id = 1
          /\ n.panels = <<"Hierarchy", "Viewport", "Assets">>
          /\ n.active = 1

\* C34: a step that finds the session in ActiveDrag leaves it in ActiveDrag
\* with the same panel and source container, wherever the pointer is, unless
\* it is handle_panel_drop's step in a frame where the button was released.
C34_ActiveDragLasts ==
    [][ActiveDrag =>
          \/ /\ ActiveDrag'
             /\ drag'.dragging = drag.dragging
             /\ drag'.source_container = drag.source_container
          \/ /\ input.just_released
             /\ "handle_panel_drop" \notin ran
             /\ "handle_panel_drop" \in ran'
      ]_vars

\* C34's case: the session is in ActiveDrag in a frame after the one that
\* entered it; the button is held, the pointer is back at 5 pixels from the
\* press position and over no container, every system of the frame has run
\* and no drop target is recorded.
C34_Witness ==
    /\ ran = DragSystems
    /\ ActiveDrag
    /\ input.pressed
    /\ ~input.just_released
    /\ input.cursor = Some(<<38, 6>>)
    /\ drag.drag_position # <<38, 6>>
    /\ ~input.over.some
    /\ ~drag.drop_target.some

\* The panel entries of a layout, the tree's then the floating windows'.
PanelEntries(l) ==
    (IF l.root.some THEN all_panels(l.root.val) ELSE <<>>)
    \o FloatingPanels(l.floating)

\* How many times a PanelId occurs among the panel entries of a layout.
Occurrences(l, p) ==
    Cardinality({k \in 1..Len(PanelEntries(l)) : PanelEntries(l)[k] = p})

\* The Panel nodes of a layout that hold the panel.
Holders(l, p) ==
    {TreeNodes(l)[k] : k \in {j \in 1..Len(TreeNodes(l)) :
                                 /\ TreeNodes(l)[j].kind = "Panel"
                                 /\ position(TreeNodes(l)[j].panels, p).some}}

\* C37: a drop on a container of the tree leaves every PanelId as many times
\* in the layout as before; afterwards one container holds the dragged
\* panel: the target for Center, and for an edge zone a container with a
\* DockId that was in no node before, holding that panel only.
C37_DropConservesPanels ==
    [][DropOnContainer =>
          LET p == drag.dragging.val
              t == drag.drop_target.val
              held == Holders(layout', p)
          IN  /\ \A q \in PanelIds : Occurrences(layout', q) = Occurrences(layout, q)
              /\ Cardinality(held) = 1
              /\ \A n \in held :
                    IF drag.drop_zone.val = "Center"
                    THEN n.id = t
                    ELSE /\ n.panels = <<p>>
                         /\ \A k \in 1..Len(TreeNodes(layout)) :
                               TreeNodes(layout)[k].id # n.id
      ]_vars

\* C37's case: the Viewport panel has been dropped on an edge of its own
\* container: that container, now empty, is the first child of a new Split
\* whose second child holds the panel, and the Hierarchy and Inspector
\* panels are where they were.
C37_Witness ==
    /\ "handle_panel_drop" \in ran
    /\ input.just_released
    /\ layout.floating = <<>>
    /\ \E s \in Splits :
          /\ s.first = PanelNode(<<>>, 0, 0)
          /\ s.second.kind = "Panel"
          /\ s.second.panels = <<"Viewport">>
    /\ \E n \in Containers : n.id = 1 /\ n.panels = <<"Hierarchy">>
    /\ \E n \in Containers : n.id = 2 /\ n.panels = <<"Inspector">>

\* C38: in a frame of a divider drag with the button held and the pointer at
\* the position of the press, handle_divider_drag leaves the dragged Split
\* with the ratio clamp(r0, 0.1, 0.9), r0 the ratio captured at the press,
\* whatever ratio the earlier frames of the drag left.
C38_ReturnRestoresRatio ==
    [][(/\ DividerDragStep
        /\ divider.dragging.some
        /\ input.pressed
        /\ input.cursor = Some(divider.start_position)) =>
           \A s \in SplitsOf(layout', divider.dragging.val) :
               s.ratio = clamp(divider.original_ratio, 10, 90)
      ]_vars

\* C38's case: the host has split the Viewport container with the ratio
\* 5.0, which split_container stores as it is, and the new Split's divider
\* was pressed; the pointer is back at the position of the press in a later
\* frame, the button held; handle_divider_drag has run, and the ratio is 0.9.
C38_Witness ==
    /\ "handle_divider_drag" \in ran
    /\ divider.dragging.some
    /\ divider.original_ratio = 500
    /\ input.pressed
    /\ ~input.just_pressed
    /\ input.cursor = Some(divider.start_position)
    /\ layout.root.val.first.kind = "Split"
    /\ layout.root.val.first.id = divider.dragging.val
    /\ layout.root.val.first.ratio = 90

\* A node without its children.
Shallow(node) ==
    IF node.kind = "Panel" THEN node
    ELSE [kind |-> "Split", id |-> node.id, direction |-> node.direction,
          ratio |-> node.ratio]

\* The nodes of a layout's tree without their children, root first.
ShallowNodes(l) ==
    LET nodes == TreeNodes(l) IN [k \in 1..Len(nodes) |-> Shallow(nodes[k])]

\* The positions in the tree whose node a step has changed.
ChangedPositions ==
    LET before == ShallowNodes(layout)
        after == ShallowNodes(layout')
    IN  {k \in 1..Len(before) : after[k] # before[k]}

\* C39: handle_divider_drag's step leaves the shape of the tree, the floating
\* list, the panel drag state and the DockId counter as they were, and
\* changes at most one node: a Split with the DockId the session holds, in
\* its ratio only; with no session, or with a DockId that is no Split's, it
\* changes nothing.
C39_ResizeChangesOneRatio ==
    [][DividerDragStep =>
          LET before == ShallowNodes(layout)
              after == ShallowNodes(layout')
          IN  /\ Len(after) = Len(before)
              /\ layout'.floating = layout.floating
              /\ drag' = drag
              /\ COUNTER' = COUNTER
              /\ Cardinality(ChangedPositions) <= 1
              /\ \A k \in ChangedPositions :
                    /\ divider.dragging = Some(before[k].id)
                    /\ before[k].kind = "Split"
                    /\ after[k] = [before[k] EXCEPT !.ratio = after[k].ratio]
              /\ (\/ ~divider.dragging.some
                  \/ SplitsOf(layout, divider.dragging.val) = {}) =>
                    layout' = layout
      ]_vars

\* C40: in every state dragging and potential_drag_panel are not both set,
\* potential_drag_panel is set iff potential_drag_container is, dragging is
\* set iff source_container is, and drop_target or drop_zone is set only
\* while dragging is.
C40_OneDragState ==
    /\ ~(drag.dragging.some /\ drag.potential_drag_panel.some)
    /\ drag.potential_drag_panel.some <=> drag.potential_drag_container.some
    /\ drag.dragging.some <=> drag.source_container.some
    /\ (drag.drop_target.some \/ drag.drop_zone.some) => drag.dragging.some

====
